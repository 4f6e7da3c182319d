--------------------- MODULE ConstantConeStorageProofs ---------------------
(***************************************************************************)
(* Proofs about ConstantConeStorage, for every set of cones, however long  *)
(* the names of directories are, and every number of workers, tries and    *)
(* errors: the contract of IConeStorage is kept, and unmarkCones() leaves  *)
(* no directory behind.                                                    *)
(***************************************************************************)
EXTENDS ConstantConeStorage, FiniteSetTheorems, TLAPS

-----------------------------------------------------------------------------
(* Paths *)

\* Names of directories, and directories below the root.
Character == STRING \cup {suffix}
Name == Seq(Character)
Directory == Seq(Name) \ {<<>>}

\* A piece of a name that _asPath() accepts does not end in the suffix.
LEMMA PiecesFacts ==
  ASSUME NEW str \in Seq(Character), Accepted(str), NEW length \in 1..Len(str)
  PROVE  /\ Pieces(str, length) \in Seq(Name)
         /\ Len(Pieces(str, length)) > 0
         /\ \A i \in 1..Len(Pieces(str, length)) :
              LET p == Pieces(str, length)[i]
              IN  ~ (p # <<>> /\ Last(p) = suffix)
  <1> DEFINE n == (Len(str) + length - 1) \div length
             low(i) == (i - 1) * length + 1
             high(i) == Min({i * length, Len(str)})
  <1>1. Len(str) \in Nat /\ length \in Nat /\ length >= 1 /\ length <= Len(str)
    OBVIOUS
  <1>2. n \in Nat /\ n >= 1
    BY <1>1
  <1>3. ASSUME NEW i \in 1..n
        PROVE  low(i) \in Nat /\ low(i) >= 1
               /\ high(i) \in Nat /\ high(i) <= Len(str)
    <2>1. i - 1 \in Nat /\ i \in Nat
      BY <1>2
    <2>2. (i - 1) * length \in Nat /\ i * length \in Nat
      BY <1>1, <2>1
    <2> DEFINE a == i * length
               b == Len(str)
    <2>3. a \in Nat /\ b \in Nat
      BY <1>1, <2>2
    <2> HIDE DEF a, b
    <2>4. \E x \in {a, b} : \A y \in {a, b} : x <= y
      <3>1. CASE a <= b
        BY <2>3, <3>1
      <3>2. CASE b <= a
        BY <2>3, <3>2
      <3> QED
        BY <2>3, <3>1, <3>2
    <2>5. Min({a, b}) \in {a, b} /\ \A y \in {a, b} : Min({a, b}) <= y
      BY <2>4 DEF Min
    <2> QED
      BY <2>2, <2>3, <2>5 DEF a, b
  <1> HIDE DEF low, high, n
  <1>4. ASSUME NEW i \in 1..n
        PROVE  LET p == SubSeq(str, low(i), high(i))
               IN  p \in Name /\ ~ (p # <<>> /\ Last(p) = suffix)
    <2> DEFINE p == SubSeq(str, low(i), high(i))
    <2>1. /\ low(i) \in Nat /\ low(i) >= 1
          /\ high(i) \in Nat /\ high(i) <= Len(str)
      BY <1>3
    <2>2. p \in Seq(Character)
      BY <1>1, <2>1
    <2>3. ASSUME p # <<>> PROVE Last(p) # suffix
      <3>1. Len(p) = high(i) - low(i) + 1 /\ low(i) <= high(i)
        BY <1>1, <2>1, <2>3
      <3>2. p[Len(p)] = str[high(i)]
        BY <1>1, <2>1, <3>1
      <3>3. high(i) \in DOMAIN str
        BY <1>1, <2>1, <3>1
      <3>4. str[high(i)] \in Range(str)
        BY <3>3 DEF Range
      <3> QED
        BY <3>2, <3>4 DEF Last, Accepted
    <2> QED
      BY <2>2, <2>3 DEF Name
  <1>5. Pieces(str, length) = [i \in 1..n |-> SubSeq(str, low(i), high(i))]
    BY DEF Pieces, n, low, high
  <1>6. Pieces(str, length) \in Seq(Name) /\ Len(Pieces(str, length)) = n
    <2>1. [i \in 1..n |-> SubSeq(str, low(i), high(i))] \in [1..n -> Name]
      BY <1>4
    <2> QED
      BY <1>2, <1>5, <2>1
  <1> QED
    BY <1>2, <1>4, <1>5, <1>6

\* The suffix is at the end of a cone's path, and nowhere above.
LEMMA ConePaths ==
  ASSUME NEW c \in Cone
  PROVE  /\ c \in Directory
         /\ isAtValidPosition(c)
         /\ \A i \in 1 .. Len(c) - 1 : ~ isAtValidPosition(Dir(c, i))
  <1> DEFINE str == asString(c)
  <1>1. str \in Seq(Character) /\ Accepted(str)
    <2>1. str \in Seq(STRING) /\ Accepted(str)
      BY ConstantAssumption
    <2>2. STRING \subseteq Character
      BY DEF Character
    <2> HIDE DEF str
    <2>3. str \in [1..Len(str) -> STRING] /\ Len(str) \in Nat
      BY <2>1
    <2>4. str \in [1..Len(str) -> Character]
      BY <2>2, <2>3
    <2> QED
      BY <2>1, <2>3, <2>4
  <1>2. PICK length \in 1..Len(str) : c = asPath(str, length)
    BY ConstantAssumption
  <1> DEFINE p == Pieces(str, length)
             n == Len(p)
  <1>3. /\ p \in Seq(Name) /\ n > 0 /\ n \in Nat
        /\ \A i \in 1..n : ~ (p[i] # <<>> /\ Last(p[i]) = suffix)
    <2>1. p \in Seq(Name) /\ n > 0
          /\ \A i \in 1..n : ~ (p[i] # <<>> /\ Last(p[i]) = suffix)
      <3> HIDE DEF str
      <3> QED
        BY <1>1, <1>2, PiecesFacts
    <2> QED
      BY <2>1
  <1>4. str # <<>>
    BY <1>1, <1>2
  <1>5. c = [p EXCEPT ![n] = Append(@, suffix)]
    <2> DEFINE q == IF str = <<>> THEN << <<>> >> ELSE Pieces(str, length)
    <2>1. asPath(str, length) = [q EXCEPT ![Len(q)] = Append(@, suffix)]
      BY DEF asPath
    <2>2. q = p
      BY <1>4
    <2> HIDE DEF q, p, str
    <2> QED
      BY <1>2, <2>1, <2>2
  <1> HIDE DEF str, p, n
  <1>6. suffix \in Character
    BY DEF Character
  <1>7. DOMAIN p = 1..n /\ p \in [1..n -> Name]
    BY <1>3 DEF n
  <1>8. p[n] \in Name /\ Append(p[n], suffix) \in Name
    BY <1>3, <1>6, <1>7 DEF Name
  <1>9. /\ c \in Seq(Name) /\ Len(c) = n
        /\ c[n] = Append(p[n], suffix)
        /\ \A i \in 1 .. n - 1 : c[i] = p[i]
    <2>1. c \in [1..n -> Name]
      BY <1>5, <1>7, <1>8
    <2>2. c[n] = Append(p[n], suffix)
      BY <1>3, <1>5, <1>7
    <2>3. ASSUME NEW i \in 1 .. n - 1 PROVE c[i] = p[i]
      <3>1. i \in 1..n /\ i # n
        BY <1>3
      <3> QED
        BY <1>5, <1>7, <3>1
    <2>4. c \in Seq(Name) /\ Len(c) = n
      <3> HIDE DEF Name
      <3> QED
        BY <1>3, <2>1
    <2> QED
      BY <2>2, <2>3, <2>4
  <1>10. isAtValidPosition(c)
    <2>1. Len(Append(p[n], suffix)) = Len(p[n]) + 1 /\ Len(p[n]) \in Nat
          /\ Append(p[n], suffix)[Len(p[n]) + 1] = suffix
      BY <1>6, <1>8 DEF Name
    <2>2. Append(p[n], suffix) # <<>>
      BY <2>1
    <2> QED
      BY <1>9, <2>1, <2>2 DEF isAtValidPosition, Last
  <1>11. ASSUME NEW i \in 1 .. Len(c) - 1 PROVE ~ isAtValidPosition(Dir(c, i))
    <2>1. Len(Dir(c, i)) = i /\ Dir(c, i)[i] = c[i]
      BY <1>3, <1>9 DEF Dir
    <2>2. Last(Dir(c, i)) = p[i] /\ i \in 1..n
      BY <1>3, <1>9, <2>1 DEF Last
    <2> QED
      BY <1>3, <2>2 DEF isAtValidPosition
  <1>12. c # <<>>
    BY <1>3, <1>9
  <1> QED
    BY <1>9, <1>10, <1>11, <1>12 DEF Directory

\* Directories on the way to a cone.
LEMMA DirFacts ==
  ASSUME NEW c \in Cone, NEW i \in 1..Len(c)
  PROVE  /\ Dir(c, i) \in Dirs /\ Dir(c, i) \in Directory
         /\ Len(Dir(c, i)) = i
         /\ isAtValidPosition(Dir(c, i)) <=> i = Len(c)
         /\ Dir(c, Len(c)) = c
         /\ Parent(Dir(c, i)) = Dir(c, i - 1)
         /\ i = 1 <=> Dir(c, i - 1) = <<>>
         /\ \A j \in 1..i : Dir(c, i)[j] = c[j]
  <1>1. c \in Seq(Name) /\ c # <<>> /\ Len(c) \in Nat
    BY ConePaths DEF Directory
  <1>2. Dir(c, i) \in Seq(Name) /\ Len(Dir(c, i)) = i
        /\ \A j \in 1..i : Dir(c, i)[j] = c[j]
    BY <1>1 DEF Dir
  <1>3. Dir(c, i) # <<>>
    BY <1>2
  <1>4. Dir(c, Len(c)) = c
    BY <1>1 DEF Dir
  <1>5. isAtValidPosition(Dir(c, i)) <=> i = Len(c)
    BY <1>1, <1>4, ConePaths
  <1>6. Parent(Dir(c, i)) = Dir(c, i - 1)
    BY <1>1, <1>2 DEF Parent, Front, Dir
  <1>7. i = 1 <=> Dir(c, i - 1) = <<>>
    BY <1>1 DEF Dir
  <1>8. Dir(c, i) \in Dirs
    BY DEF Dirs
  <1> QED
    BY <1>2, <1>3, <1>4, <1>5, <1>6, <1>7, <1>8 DEF Directory

LEMMA DirsFacts ==
  ASSUME NEW d \in Dirs
  PROVE  /\ d \in Directory
         /\ Parent(d) = <<>> \/ (Parent(d) \in Dirs /\ ~ isAtValidPosition(Parent(d)))
         /\ isAtValidPosition(d) <=> d \in Cone
  <1>1. PICK c \in Cone : \E i \in 1..Len(c) : d = Dir(c, i)
    BY DEF Dirs
  <1>2. PICK i \in 1..Len(c) : d = Dir(c, i)
    BY <1>1
  <1>3. d \in Directory
    BY <1>2, DirFacts
  <1>4. Len(c) \in Nat
    BY ConePaths DEF Directory
  <1>5. Parent(d) = <<>> \/ (Parent(d) \in Dirs /\ ~ isAtValidPosition(Parent(d)))
    <2>1. CASE i = 1
      BY <1>2, <2>1, DirFacts
    <2>2. CASE i # 1
      <3>1. i - 1 \in 1..Len(c) /\ i - 1 # Len(c)
        BY <1>4, <2>2
      <3>2. Dir(c, i - 1) \in Dirs /\ ~ isAtValidPosition(Dir(c, i - 1))
        BY <3>1, DirFacts
      <3> QED
        BY <1>2, <3>2, DirFacts
    <2> QED
      BY <2>1, <2>2
  <1>6. isAtValidPosition(d) => d \in Cone
    BY <1>2, DirFacts
  <1>7. d \in Cone => isAtValidPosition(d)
    BY ConePaths
  <1> QED
    BY <1>3, <1>5, <1>6, <1>7

\* A cone's directory has none below it.
LEMMA ConesAreLeaves ==
  ASSUME TypeOK, NEW c \in Cone
  PROVE  IsEmpty(c)
  <1> SUFFICES ASSUME NEW e \in dirs PROVE Parent(e) # c
    BY DEF IsEmpty
  <1>1. e \in Dirs
    BY DEF TypeOK
  <1>2. Parent(e) = <<>> \/ ~ isAtValidPosition(Parent(e))
    BY <1>1, DirsFacts
  <1> QED
    BY <1>2, ConePaths DEF Directory

\* Prefixes, element by element.
LEMMA PrefixIs ==
  ASSUME NEW s \in Seq(Name), NEW t \in Seq(Name)
  PROVE  IsPrefix(s, t) <=>
           Len(s) <= Len(t) /\ \A i \in 1..Len(s) : s[i] = t[i]
  <1>1. ASSUME Len(s) <= Len(t)
        PROVE  SubSeq(s, 1, Len(s)) = SubSeq(t, 1, Len(s)) <=>
                 \A i \in 1..Len(s) : s[i] = t[i]
    <2>1. SubSeq(s, 1, Len(s)) = [i \in 1..Len(s) |-> s[i]]
      OBVIOUS
    <2>2. SubSeq(t, 1, Len(s)) = [i \in 1..Len(s) |-> t[i]]
      BY <1>1
    <2> QED
      BY <2>1, <2>2
  <1> QED
    BY <1>1 DEF IsPrefix

LEMMA PrefixOfItself ==
  ASSUME NEW s \in Seq(Name)
  PROVE  IsPrefix(s, s)
  BY PrefixIs

LEMMA PrefixOfNothing ==
  ASSUME NEW d \in Directory
  PROVE  ~ IsPrefix(d, <<>>)
  <1>1. d \in Seq(Name) /\ Len(d) # 0 /\ Len(d) \in Nat
    BY DEF Directory
  <1>2. ~ (Len(d) <= Len(<<>>))
    BY <1>1
  <1> QED
    BY <1>2 DEF IsPrefix

LEMMA ParentFacts ==
  ASSUME NEW p \in Directory
  PROVE  /\ Parent(p) \in Seq(Name) /\ Len(Parent(p)) = Len(p) - 1
         /\ \A i \in 1 .. Len(p) - 1 : Parent(p)[i] = p[i]
  <1> DEFINE m == Len(p) - 1
  <1>1. p \in Seq(Name) /\ Len(p) \in Nat /\ m \in Nat /\ m <= Len(p)
    BY DEF Directory
  <1>2. Parent(p) = SubSeq(p, 1, m)
    BY DEF Parent, Front
  <1> HIDE DEF m
  <1>3. SubSeq(p, 1, m) \in Seq(Name) /\ Len(SubSeq(p, 1, m)) = m
        /\ \A i \in 1..m : SubSeq(p, 1, m)[i] = p[i]
    BY <1>1
  <1> QED
    BY <1>2, <1>3 DEF m

\* What is above a directory other than the directory itself is above its
\* parent or is the parent.
LEMMA PrefixOfParent ==
  ASSUME NEW d \in Directory, NEW p \in Directory, IsPrefix(d, p), d # p
  PROVE  IsPrefix(d, Parent(p))
  <1>1. /\ d \in Seq(Name) /\ p \in Seq(Name) /\ Len(p) \in Nat /\ Len(d) \in Nat
        /\ Len(p) > 0
    BY DEF Directory
  <1>2. Len(d) <= Len(p) /\ \A i \in 1..Len(d) : d[i] = p[i]
    BY <1>1, PrefixIs
  <1>3. Len(d) # Len(p)
    <2> SUFFICES ASSUME Len(d) = Len(p) PROVE d = p
      OBVIOUS
    <2>1. d \in [1..Len(p) -> Name] /\ p \in [1..Len(p) -> Name]
      BY <1>1
    <2>2. \A i \in 1..Len(p) : d[i] = p[i]
      BY <1>2
    <2> QED
      BY <2>1, <2>2
  <1>4. Parent(p) \in Seq(Name) /\ Len(Parent(p)) = Len(p) - 1
        /\ \A i \in 1 .. Len(p) - 1 : Parent(p)[i] = p[i]
    BY ParentFacts
  <1>5. \A i \in 1..Len(d) : d[i] = Parent(p)[i]
    BY <1>1, <1>2, <1>3, <1>4
  <1>6. Len(d) <= Len(Parent(p))
    BY <1>1, <1>2, <1>3, <1>4
  <1> QED
    BY <1>1, <1>4, <1>5, <1>6, PrefixIs

\* What is above the parent of a directory is above what is below it.
LEMMA PrefixBelow ==
  ASSUME NEW d \in Directory, NEW e \in Directory, NEW l \in Seq(Name),
         IsPrefix(d, Parent(e)), IsPrefix(e, l)
  PROVE  IsPrefix(d, l)
  <1>1. d \in Seq(Name) /\ e \in Seq(Name) /\ Len(e) \in Nat /\ Len(d) \in Nat
        /\ Len(l) \in Nat /\ Len(e) > 0
    BY DEF Directory
  <1>2. Parent(e) \in Seq(Name) /\ Len(Parent(e)) = Len(e) - 1
        /\ \A i \in 1 .. Len(e) - 1 : Parent(e)[i] = e[i]
    BY ParentFacts
  <1>3. Len(d) <= Len(Parent(e)) /\ \A i \in 1..Len(d) : d[i] = Parent(e)[i]
    BY <1>1, <1>2, PrefixIs
  <1>4. Len(e) <= Len(l) /\ \A i \in 1..Len(e) : e[i] = l[i]
    BY <1>1, PrefixIs
  <1>5. \A i \in 1..Len(d) : d[i] = l[i]
    <2>1. Len(d) <= Len(e) - 1
      BY <1>2, <1>3
    <2>2. 1..Len(d) \subseteq 1 .. Len(e) - 1 /\ 1..Len(d) \subseteq 1..Len(e)
      BY <1>1, <2>1
    <2> QED
      BY <1>2, <1>3, <1>4, <2>2
  <1>6. Len(d) <= Len(l)
    BY <1>1, <1>2, <1>3, <1>4
  <1> QED
    BY <1>1, <1>5, <1>6, PrefixIs

-----------------------------------------------------------------------------
(* Facts about states *)

LEMMA CallTypes ==
  ASSUME TypeOK, NEW w \in Worker
  PROVE  /\ adding[w].pc \in {"idle", "failed", "all", "mkdir", "stat", "return"}
         /\ adding[w].pc = "idle" <=> adding[w] = Idle
         /\ adding[w].pc = "failed" <=> adding[w] = Failed
         /\ adding[w].pc \in {"all", "mkdir", "stat", "return"} =>
              /\ adding[w] \in Calls
              /\ adding[w].cone \in Cone
              /\ adding[w].level \in 1..Len(adding[w].cone)
              /\ adding[w].try \in 0..Boundary
  BY DEF TypeOK, Calls, Idle, Failed

LEMMA MarksAre ==
  ASSUME TypeOK
  PROVE  Marks = dirs \cap Cone
  BY DirsFacts DEF TypeOK, Marks

LEMMA MarksAreNext ==
  ASSUME TypeOK'
  PROVE  Marks' = dirs' \cap Cone
  BY DirsFacts DEF TypeOK, Marks

LEMMA HeldIs ==
  \A h : h \in Held <=>
           \E w \in Worker :
             \/ adding[w].pc = "mkdir" /\ h = Dir(adding[w].cone, adding[w].level - 1)
             \/ adding[w].pc = "stat" /\ h = Dir(adding[w].cone, adding[w].level)
  BY DEF Held

LEMMA HeldIsNext ==
  \A h : h \in Held' <=>
           \E w \in Worker :
             \/ adding'[w].pc = "mkdir"
                /\ h = Dir(adding'[w].cone, adding'[w].level - 1)
             \/ adding'[w].pc = "stat" /\ h = Dir(adding'[w].cone, adding'[w].level)
  BY DEF Held

\* What another call holds stays held.
LEMMA HeldByOthers ==
  ASSUME TypeOK, NEW w \in Worker, NEW a, adding' = [adding EXCEPT ![w] = a],
         NEW h \in Held
  PROVE  \/ h \in Held'
         \/ adding[w].pc = "mkdir" /\ h = Dir(adding[w].cone, adding[w].level - 1)
         \/ adding[w].pc = "stat" /\ h = Dir(adding[w].cone, adding[w].level)
  <1>1. PICK v \in Worker :
               \/ adding[v].pc = "mkdir"
                  /\ h = Dir(adding[v].cone, adding[v].level - 1)
               \/ adding[v].pc = "stat" /\ h = Dir(adding[v].cone, adding[v].level)
    BY HeldIs
  <1>2. CASE v = w
    BY <1>1, <1>2
  <1>3. CASE v # w
    <2>1. adding'[v] = adding[v]
      BY <1>3 DEF TypeOK
    <2> QED
      BY <1>1, <2>1, HeldIsNext
  <1> QED
    BY <1>2, <1>3

\* A step of a call keeps every directory in use if what its call held is
\* kept in use.
LEMMA CallKeepsLeads ==
  ASSUME TypeOK, DirectoriesLead, faults' = 0 => faults = 0,
         current' = current, path' = path, dirs \subseteq dirs', TypeOK',
         NEW w \in Worker, NEW a, adding' = [adding EXCEPT ![w] = a],
         \A d \in dirs' \ dirs : Leads(d)',
         \A d \in dirs :
           /\ adding[w].pc = "mkdir"
           /\ Dir(adding[w].cone, adding[w].level - 1) \in dirs
           /\ IsPrefix(d, Dir(adding[w].cone, adding[w].level - 1))
           => Leads(d)',
         \A d \in dirs :
           /\ adding[w].pc = "stat"
           /\ Dir(adding[w].cone, adding[w].level) \in dirs
           /\ IsPrefix(d, Dir(adding[w].cone, adding[w].level))
           => Leads(d)'
  PROVE  DirectoriesLead'
  <1> SUFFICES ASSUME faults' = 0, NEW d \in dirs' PROVE Leads(d)'
    BY DEF DirectoriesLead
  <1>1. CASE d \notin dirs
    BY <1>1
  <1>2. CASE d \in dirs
    <2>1. Leads(d)
      BY <1>2 DEF DirectoriesLead
    <2>2. CASE \E c \in Marks : IsPrefix(d, c)
      <3>1. Marks \subseteq Marks'
        BY MarksAre, MarksAreNext
      <3> QED
        BY <2>2, <3>1 DEF Leads
    <2>3. CASE current # <<>> /\ IsPrefix(d, path)
      BY <2>3 DEF Leads
    <2>4. CASE \E h \in Held \cap dirs : IsPrefix(d, h)
      <3>1. PICK h \in Held \cap dirs : IsPrefix(d, h)
        BY <2>4
      <3>2. CASE h \in Held'
        BY <3>1, <3>2 DEF Leads
      <3>3. CASE adding[w].pc = "mkdir"
                 /\ h = Dir(adding[w].cone, adding[w].level - 1)
        BY <1>2, <3>1, <3>3
      <3>4. CASE adding[w].pc = "stat"
                 /\ h = Dir(adding[w].cone, adding[w].level)
        BY <1>2, <3>1, <3>4
      <3> QED
        BY <3>1, <3>2, <3>3, <3>4, HeldByOthers
    <2> QED
      BY <2>1, <2>2, <2>3, <2>4 DEF Leads
  <1> QED
    BY <1>1, <1>2

-----------------------------------------------------------------------------
(* The inductive invariant *)

LEMMA InitIInv == Init => IInv
  <1> SUFFICES ASSUME Init PROVE IInv
    OBVIOUS
  <1>1. TypeOK
    BY ConstantAssumption DEF Init, TypeOK, Unsaved
  <1>2. Marks = {} /\ \A w \in Worker : adding[w] = Idle
    BY DEF Init, Marks
  <1>3. CallShape
    BY <1>2 DEF Init, CallShape, Committed, Idle
  <1>4. ScanShape
    BY <1>2 DEF Init, ScanShape
  <1>5. DirectoriesLead
    BY DEF Init, DirectoriesLead
  <1> QED
    BY <1>1, <1>3, <1>4, <1>5 DEF IInv

LEMMA CallPreserves ==
  ASSUME IInv, NEW w \in Worker, NEW c \in Cone, Call(w, c)
  PROVE  IInv'
  <1> DEFINE a == At("all", c, 1, 0)
  <1>1. /\ adding' = [adding EXCEPT ![w] = a] /\ adding[w] = Idle
        /\ UNCHANGED <<all, dirs, unmark, faults, successes, saved>>
    BY DEF Call
  <1>2. a \in Calls /\ a.level \in 1..Len(a.cone) /\ a.pc = "all"
    BY ConePaths, ConstantAssumption DEF At, Calls, Directory
  <1> HIDE DEF a
  <1>3. TypeOK'
    BY <1>1, <1>2 DEF IInv, TypeOK, unmark
  <1>4. Marks' = Marks
    BY <1>1 DEF Marks
  <1>5. CallShape'
    BY <1>1, <1>2, <1>4 DEF IInv, TypeOK, CallShape, Committed, unmark
  <1>6. ScanShape'
    BY <1>1, <1>4 DEF IInv, ScanShape, unmark
  <1>7. DirectoriesLead'
    <2>1. adding[w].pc = "idle"
      BY <1>1 DEF Idle
    <2> QED
      BY <1>1, <1>3, <2>1, CallKeepsLeads DEF IInv, unmark
  <1> QED
    BY <1>3, <1>5, <1>6, <1>7 DEF IInv

\* The types after a step of a call.
LEMMA CallStepTypes ==
  ASSUME TypeOK, NEW w \in Worker, NEW a, adding' = [adding EXCEPT ![w] = a],
         a \in {Idle, Failed} \/ (a \in Calls /\ a.level \in 1..Len(a.cone)),
         all' \in SUBSET Cone, dirs' \in SUBSET Dirs, faults' \in 0..MaxFaults,
         successes' \in [Cone -> 0..1], UNCHANGED <<unmark, saved>>
  PROVE  TypeOK'
  <1>1. adding' \in [Worker -> {Idle, Failed} \cup Calls]
    BY DEF TypeOK
  <1>2. ASSUME NEW v \in Worker, adding'[v] \notin {Idle, Failed}
        PROVE  adding'[v].level \in 1..Len(adding'[v].cone)
    BY <1>2 DEF TypeOK
  <1>3. /\ unmarking' \in {"idle", "scanning", "removing", "failed"}
        /\ limit' \in Nat /\ cones' \in SUBSET Cone /\ removed' \in SUBSET cones'
        /\ current' \in Cone \cup {<<>>} /\ path' \in Dirs \cup {<<>>}
        /\ try' \in 0..Boundary
        /\ seen' \in SUBSET Cone /\ retrieved' \in SUBSET Cone
        /\ saved' \in [answer : {"none", "true", "false"}, file : SUBSET Cone]
    BY DEF TypeOK, unmark
  <1> QED
    BY <1>1, <1>2, <1>3 DEF TypeOK

LEMMA AddToAllPreserves ==
  ASSUME IInv, NEW w \in Worker, AddToAll(w)
  PROVE  IInv'
  <1> DEFINE c == adding[w].cone
             a == IF InAll(c) THEN Idle ELSE [adding[w] EXCEPT !.pc = "mkdir"]
  <1>1. /\ adding' = [adding EXCEPT ![w] = a] /\ adding[w].pc = "all"
        /\ all' = all \cup {c}
        /\ UNCHANGED <<dirs, unmark, faults, successes, saved>>
    BY DEF AddToAll
  <1>2. TypeOK /\ CallShape /\ ScanShape /\ DirectoriesLead
    BY DEF IInv
  <1>3. adding[w] \in Calls /\ c \in Cone
        /\ adding[w].level \in 1..Len(adding[w].cone)
    BY <1>1, <1>2, CallTypes
  <1>4. \/ a = Idle /\ c \in all
        \/ /\ a \in Calls /\ a.level \in 1..Len(a.cone) /\ a.pc = "mkdir"
           /\ a.cone = c /\ c \notin all
    BY <1>3 DEF InAll, Calls
  <1> HIDE DEF a
  <1>5. TypeOK'
    BY <1>1, <1>2, <1>3, <1>4, CallStepTypes DEF TypeOK
  <1>6. Marks' = Marks
    BY <1>1 DEF Marks
  <1>7. CallShape'
    <2>1. CASE a = Idle /\ c \in all
      <3>1. all' = all /\ a.pc = "idle"
        BY <1>1, <2>1 DEF Idle
      <3> QED
        BY <1>1, <1>2, <1>6, <3>1 DEF TypeOK, CallShape, Committed, unmark
    <2>2. CASE a.pc = "mkdir" /\ a.cone = c /\ c \notin all
      <3>1. successes[c] = 0 /\ c \notin Marks \cup retrieved
        BY <1>2, <1>3, <2>2 DEF TypeOK, CallShape
      <3>2. ASSUME NEW v \in Worker, Committed(v) PROVE adding[v].cone # c
        BY <1>2, <2>2, <3>2 DEF CallShape
      <3>3. adding'[w] = a /\ \A v \in Worker \ {w} : adding'[v] = adding[v]
        BY <1>1, <1>2 DEF TypeOK
      <3>4. ASSUME NEW v \in Worker
            PROVE  /\ Committed(v)' =>
                        adding'[v].cone \in all' /\ successes'[adding'[v].cone] = 0
                   /\ adding'[v].pc \in {"mkdir", "stat"} =>
                        adding'[v].cone \notin Marks' \cup retrieved'
                   /\ adding'[v].pc = "return" =>
                        adding'[v].cone \in Marks' \cup retrieved'
        <4>1. CASE v = w
          BY <1>1, <1>6, <2>2, <3>1, <3>3, <4>1 DEF unmark
        <4>2. CASE v # w
          BY <1>1, <1>2, <1>6, <3>3, <4>2 DEF CallShape, Committed, unmark
        <4> QED
          BY <4>1, <4>2
      <3>5. ASSUME NEW v \in Worker, NEW u \in Worker, Committed(v)',
                   Committed(u)', adding'[v].cone = adding'[u].cone
            PROVE  v = u
        BY <1>2, <2>2, <3>2, <3>3, <3>5 DEF CallShape, Committed
      <3>6. Marks' \cup retrieved' \subseteq all'
            /\ \A k \in Cone : successes'[k] = 1 => k \in all'
        BY <1>1, <1>2, <1>6 DEF CallShape, unmark
      <3> QED
        BY <3>4, <3>5, <3>6 DEF CallShape
    <2> QED
      BY <1>4, <2>1, <2>2
  <1>8. ScanShape'
    BY <1>1, <1>2, <1>6 DEF ScanShape, unmark
  <1>9. DirectoriesLead'
    <2>1. adding[w].pc # "mkdir" /\ adding[w].pc # "stat"
      BY <1>1
    <2>2. current' = current /\ path' = path
      BY <1>1 DEF unmark
    <2> QED
      BY <1>1, <1>2, <1>5, <2>1, <2>2, CallKeepsLeads
  <1> QED
    BY <1>5, <1>7, <1>8, <1>9 DEF IInv

\* A step of a call that returns nothing: the call goes on with its cone and
\* may mark it, or gives up.
LEMMA CallStepShape ==
  ASSUME TypeOK, CallShape, NEW w \in Worker, NEW a,
         adding' = [adding EXCEPT ![w] = a],
         UNCHANGED <<all, retrieved, successes>>,
         Marks \subseteq Marks',
         Marks' = Marks \/ (Committed(w) /\ Marks' = Marks \cup {adding[w].cone}),
         \/ a.pc \in {"idle", "failed", "all"} /\ Marks' = Marks
         \/ /\ a.pc \in {"mkdir", "stat"} /\ Marks' = Marks
            /\ adding[w].pc \in {"mkdir", "stat"} /\ a.cone = adding[w].cone
         \/ /\ a.pc = "return" /\ Committed(w) /\ a.cone = adding[w].cone
            /\ a.cone \in Marks'
  PROVE  CallShape'
  <1>1. adding'[w] = a /\ \A v \in Worker \ {w} : adding'[v] = adding[v]
    BY DEF TypeOK
  <1>2. ASSUME NEW v \in Worker
        PROVE  /\ Committed(v)' =>
                    adding'[v].cone \in all' /\ successes'[adding'[v].cone] = 0
               /\ adding'[v].pc \in {"mkdir", "stat"} =>
                    adding'[v].cone \notin Marks' \cup retrieved'
               /\ adding'[v].pc = "return" =>
                    adding'[v].cone \in Marks' \cup retrieved'
    <2>1. CASE v = w
      BY <1>1, <2>1 DEF CallShape, Committed
    <2>2. CASE v # w
      <3>1. adding'[v] = adding[v]
        BY <1>1, <2>2
      <3>2. Committed(v) /\ Committed(w) => adding[v].cone # adding[w].cone
        BY <2>2 DEF CallShape
      <3> QED
        BY <3>1, <3>2 DEF CallShape, Committed
    <2> QED
      BY <2>1, <2>2
  <1>3. ASSUME NEW v \in Worker, NEW u \in Worker, Committed(v)',
               Committed(u)', adding'[v].cone = adding'[u].cone
        PROVE  v = u
    <2>1. Committed(v) /\ Committed(u) /\ adding[v].cone = adding[u].cone
      BY <1>1, <1>3 DEF Committed
    <2> QED
      BY <2>1 DEF CallShape
  <1>4. Marks' \cup retrieved' \subseteq all'
        /\ \A k \in Cone : successes'[k] = 1 => k \in all'
    BY DEF CallShape
  <1> QED
    BY <1>2, <1>3, <1>4 DEF CallShape

\* A call marks a cone that unmarkCones() has nothing to do with.
LEMMA CallStepScan ==
  ASSUME TypeOK, ScanShape, CallShape, NEW w \in Worker, UNCHANGED unmark,
         \/ Marks' = Marks
         \/ /\ adding[w].pc \in {"mkdir", "stat"}
            /\ Marks' = Marks \cup {adding[w].cone}
  PROVE  ScanShape'
  <1>1. UNCHANGED <<unmarking, limit, cones, removed, current, path, retrieved>>
    BY DEF unmark
  <1>2. CASE Marks' = Marks
    BY <1>1, <1>2 DEF ScanShape
  <1>3. CASE /\ adding[w].pc \in {"mkdir", "stat"}
             /\ Marks' = Marks \cup {adding[w].cone}
    <2> DEFINE c == adding[w].cone
    <2>1. c \notin retrieved /\ Marks' = Marks \cup {c}
      BY <1>3 DEF CallShape
    <2> HIDE DEF c
    <2>2. Marks' \cap retrieved' = Marks \cap retrieved
      BY <1>1, <2>1
    <2>3. ASSUME current # <<>> PROVE current # c
      <3>1. unmarking \notin {"idle", "scanning"} /\ current \in cones
        BY <2>3 DEF ScanShape
      <3> QED
        BY <2>1, <3>1 DEF ScanShape, TypeOK
    <2> QED
      BY <1>1, <2>1, <2>2, <2>3 DEF ScanShape
  <1> QED
    BY <1>2, <1>3

\* The calls that a call goes on as.
LEMMA DescendIs ==
  ASSUME NEW b \in Calls, b.level \in 1..Len(b.cone)
  PROVE  /\ Descend(b) \in Calls
         /\ Descend(b).level \in 1..Len(Descend(b).cone)
         /\ Descend(b).cone = b.cone
         /\ b.level = Len(b.cone) => Descend(b).pc = "return"
         /\ b.level # Len(b.cone) =>
              Descend(b).pc = "mkdir" /\ Descend(b).level = b.level + 1
  <1>1. b.cone \in Cone /\ b.level \in Nat /\ Len(b.cone) \in Nat
    BY ConePaths DEF Calls, Directory
  <1>2. CASE b.level = Len(b.cone)
    <2>1. Descend(b) = [b EXCEPT !.pc = "return"]
      BY <1>2 DEF Descend
    <2> QED
      BY <1>2, <2>1 DEF Calls
  <1>3. CASE b.level # Len(b.cone)
    <2>1. Descend(b) = [b EXCEPT !.pc = "mkdir", !.level = @ + 1]
      BY <1>3 DEF Descend
    <2>2. b.level + 1 \in 1..Len(b.cone)
      BY <1>1, <1>3
    <2>3. Descend(b) = [pc |-> "mkdir", cone |-> b.cone, level |-> b.level + 1,
                        try |-> b.try]
      BY <2>1 DEF Calls
    <2>4. Descend(b) \in Calls
      BY <1>1, <2>2, <2>3 DEF Calls
    <2> QED
      BY <1>3, <2>2, <2>3, <2>4
  <1> QED
    BY <1>2, <1>3

LEMMA RetryIs ==
  ASSUME NEW b \in Calls, b.level \in 1..Len(b.cone)
  PROVE  \/ Retry(b) = Failed
         \/ /\ Retry(b) \in Calls /\ Retry(b).pc = "all"
            /\ Retry(b).level \in 1..Len(Retry(b).cone)
  <1>1. b.cone \in Cone /\ Len(b.cone) \in Nat /\ b.try \in 0..Boundary
    BY ConePaths DEF Calls, Directory
  <1>2. ASSUME ~ (b.try >= Boundary) PROVE b.try + 1 \in 0..Boundary
    BY <1>1, <1>2, ConstantAssumption
  <1> QED
    BY <1>1, <1>2 DEF Retry, At, Calls

LEMMA StatPreserves ==
  ASSUME IInv, NEW w \in Worker, Stat(w)
  PROVE  IInv'
  <1> DEFINE b == adding[w]
             here == Dir(b.cone, b.level)
             a == IF here \in dirs /\ b.level < Len(b.cone)
                  THEN Descend(b) ELSE Retry(b)
  <1>1. /\ adding' = [adding EXCEPT ![w] = a] /\ b.pc = "stat"
        /\ UNCHANGED <<all, dirs, unmark, faults, successes, saved>>
    BY DEF Stat
  <1>2. TypeOK /\ CallShape /\ ScanShape /\ DirectoriesLead
    BY DEF IInv
  <1>3. b \in Calls /\ b.cone \in Cone /\ b.level \in 1..Len(b.cone)
    BY <1>1, <1>2, CallTypes
  <1>4. Len(b.cone) \in Nat
    BY <1>3, ConePaths DEF Directory
  <1>5. \/ a = Failed /\ (here \notin dirs \/ b.level = Len(b.cone))
        \/ /\ a \in Calls /\ a.pc = "all" /\ a.level \in 1..Len(a.cone)
           /\ here \notin dirs \/ b.level = Len(b.cone)
        \/ /\ a \in Calls /\ a.pc = "mkdir" /\ a.level \in 1..Len(a.cone)
           /\ a.cone = b.cone /\ a.level - 1 = b.level /\ here \in dirs
    <2>1. CASE here \in dirs /\ b.level < Len(b.cone)
      <3>1. a = Descend(b) /\ b.level # Len(b.cone)
        BY <1>3, <1>4, <2>1
      <3>2. b.level + 1 - 1 = b.level
        BY <1>3
      <3> HIDE DEF a, here, b
      <3> QED
        BY <1>3, <2>1, <3>1, <3>2, DescendIs
    <2>2. CASE ~ (here \in dirs /\ b.level < Len(b.cone))
      <3>1. a = Retry(b)
        BY <2>2
      <3>2. here \notin dirs \/ b.level = Len(b.cone)
        BY <1>3, <1>4, <2>2
      <3> HIDE DEF a, here, b
      <3> QED
        BY <1>3, <3>1, <3>2, RetryIs
    <2> QED
      BY <2>1, <2>2
  <1> HIDE DEF a
  <1>6. TypeOK'
    BY <1>1, <1>2, <1>3, <1>5, CallStepTypes DEF TypeOK
  <1>7. Marks' = Marks
    BY <1>1 DEF Marks
  <1>8. CallShape'
    <2>1. UNCHANGED <<all, retrieved, successes>>
      BY <1>1 DEF unmark
    <2>2. \/ a.pc \in {"idle", "failed", "all"}
          \/ a.pc \in {"mkdir", "stat"} /\ b.pc \in {"mkdir", "stat"}
             /\ a.cone = b.cone
      BY <1>1, <1>5 DEF Failed
    <2> QED
      BY <1>1, <1>2, <1>7, <2>1, <2>2, CallStepShape
  <1>9. ScanShape'
    BY <1>1, <1>2, <1>7, CallStepScan
  <1>10. DirectoriesLead'
    <2>1. ASSUME NEW d \in dirs, here \in dirs, IsPrefix(d, here)
          PROVE  Leads(d)'
      <3>1. b.level # Len(b.cone)
        <4> SUFFICES ASSUME b.level = Len(b.cone) PROVE FALSE
          OBVIOUS
        <4>1. here = b.cone
          BY <1>3, DirFacts
        <4>2. b.cone \in Marks
          BY <1>2, <1>3, <2>1, <4>1, MarksAre
        <4> QED
          BY <1>1, <1>2, <4>2 DEF CallShape
      <3>2. a.pc = "mkdir" /\ a.cone = b.cone /\ a.level - 1 = b.level
        BY <1>5, <2>1, <3>1
      <3>3. adding'[w] = a
        BY <1>1, <1>2 DEF TypeOK
      <3>4. here \in Held'
        BY <3>2, <3>3, HeldIsNext
      <3>5. here \in Held' \cap dirs'
        BY <1>1, <2>1, <3>4
      <3> QED
        BY <2>1, <3>5 DEF Leads
    <2>2. current' = current /\ path' = path /\ b.pc # "mkdir"
      BY <1>1 DEF unmark
    <2> QED
      BY <1>1, <1>2, <1>6, <2>1, <2>2, CallKeepsLeads
  <1> QED
    BY <1>6, <1>8, <1>9, <1>10 DEF IInv

\* mkdir of a directory of a call: its parent is what the call held.
LEMMA MkdirPreserves ==
  ASSUME IInv, NEW w \in Worker, Mkdir(w)
  PROVE  IInv'
  <1> DEFINE b == adding[w]
             here == Dir(b.cone, b.level)
             above == Dir(b.cone, b.level - 1)
  <1>1. b.pc = "mkdir" /\ UNCHANGED <<all, unmark, faults, successes, saved>>
    BY DEF Mkdir
  <1>2. TypeOK /\ CallShape /\ ScanShape /\ DirectoriesLead
    BY DEF IInv
  <1>3. b \in Calls /\ b.cone \in Cone /\ b.level \in 1..Len(b.cone)
    BY <1>1, <1>2, CallTypes
  <1>4. /\ here \in Dirs /\ here \in Directory /\ here \in Seq(Name)
        /\ Parent(here) = above
        /\ here \in Cone <=> b.level = Len(b.cone)
        /\ b.level = Len(b.cone) => here = b.cone
    <2>1. /\ here \in Dirs /\ here \in Directory /\ Parent(here) = above
          /\ isAtValidPosition(here) <=> b.level = Len(b.cone)
          /\ b.level = Len(b.cone) => here = b.cone
      BY <1>3, DirFacts
    <2> QED
      BY <2>1, DirsFacts DEF Directory
  <1>5. UNCHANGED <<all, retrieved, successes, current, path>>
    BY <1>1 DEF unmark
  <1> HIDE DEF here, above
  \* What is above the parent is above the directory.
  <1>6. ASSUME NEW d \in dirs, IsPrefix(d, above) PROVE IsPrefix(d, here)
    <2>1. d \in Directory
      BY <1>2, DirsFacts DEF TypeOK
    <2> QED
      BY <1>4, <1>6, <2>1, PrefixBelow, PrefixOfItself
  <1>7. IsPrefix(here, here)
    BY <1>4, PrefixOfItself
  <1>8. CASE here \in dirs /\ dirs' = dirs
             /\ adding' = [adding EXCEPT ![w].pc = "stat"]
    <2> DEFINE a == [b EXCEPT !.pc = "stat"]
    <2>1. adding' = [adding EXCEPT ![w] = a]
      BY <1>8
    <2>2. a \in Calls /\ a.level \in 1..Len(a.cone) /\ a.pc = "stat"
          /\ a.cone = b.cone /\ a.level = b.level
      BY <1>3 DEF Calls
    <2> HIDE DEF a
    <2>3. TypeOK'
      <3>1. /\ all' \in SUBSET Cone /\ dirs' \in SUBSET Dirs
            /\ faults' \in 0..MaxFaults /\ successes' \in [Cone -> 0..1]
        BY <1>1, <1>2, <1>8 DEF TypeOK
      <3> QED
        BY <1>1, <1>2, <2>1, <2>2, <3>1, CallStepTypes
    <2>4. Marks' = Marks
      BY <1>8 DEF Marks
    <2>5. CallShape'
      BY <1>1, <1>2, <1>5, <2>1, <2>2, <2>4, CallStepShape
    <2>6. ScanShape'
      BY <1>1, <1>2, <2>4, CallStepScan
    <2>7. adding'[w] = a
      BY <1>2, <2>1 DEF TypeOK
    <2>8. here \in Held' \cap dirs'
      BY <1>8, <2>2, <2>7, HeldIsNext DEF here
    <2>9. ASSUME NEW d \in dirs, IsPrefix(d, above) PROVE Leads(d)'
      BY <1>6, <2>8, <2>9 DEF Leads
    <2>10. DirectoriesLead'
      BY <1>1, <1>2, <1>5, <1>8, <2>1, <2>3, <2>9, CallKeepsLeads DEF above
    <2> QED
      BY <2>3, <2>5, <2>6, <2>10 DEF IInv
  <1>9. CASE here \notin dirs /\ dirs' = dirs \cup {here}
             /\ adding' = [adding EXCEPT ![w] = Descend(b)]
    <2> DEFINE a == Descend(b)
    <2>1. adding' = [adding EXCEPT ![w] = a]
      BY <1>9
    <2>2. /\ a \in Calls /\ a.level \in 1..Len(a.cone) /\ a.cone = b.cone
          /\ b.level = Len(b.cone) => a.pc = "return"
          /\ b.level # Len(b.cone) => a.pc = "mkdir" /\ a.level = b.level + 1
      BY <1>3, DescendIs
    <2> HIDE DEF a
    <2>3. TypeOK'
      <3>1. /\ all' \in SUBSET Cone /\ dirs' \in SUBSET Dirs
            /\ faults' \in 0..MaxFaults /\ successes' \in [Cone -> 0..1]
        BY <1>1, <1>2, <1>4, <1>9 DEF TypeOK
      <3> QED
        BY <1>1, <1>2, <2>1, <2>2, <3>1, CallStepTypes
    <2>4. /\ b.level # Len(b.cone) => Marks' = Marks
          /\ b.level = Len(b.cone) => Marks' = Marks \cup {b.cone}
      <3>1. Marks = dirs \cap Cone /\ Marks' = dirs' \cap Cone
        BY <1>2, <2>3, MarksAre, MarksAreNext
      <3> QED
        BY <1>3, <1>4, <1>9, <3>1
    <2>5. CallShape'
      <3>1. Committed(w)
        BY <1>1 DEF Committed
      <3>2. \/ a.pc \in {"mkdir", "stat"} /\ Marks' = Marks
               /\ b.pc \in {"mkdir", "stat"} /\ a.cone = b.cone
            \/ a.pc = "return" /\ a.cone = b.cone /\ a.cone \in Marks'
        BY <1>1, <2>2, <2>4
      <3>3. Marks \subseteq Marks' /\ (Marks' = Marks \/ Marks' = Marks \cup {b.cone})
        BY <2>4
      <3> QED
        BY <1>2, <1>5, <2>1, <3>1, <3>2, <3>3, CallStepShape
    <2>6. ScanShape'
      BY <1>1, <1>2, <2>4, CallStepScan
    <2>7. adding'[w] = a
      BY <1>2, <2>1 DEF TypeOK
    <2>8. ASSUME NEW d, IsPrefix(d, here) PROVE Leads(d)'
      <3>1. CASE b.level = Len(b.cone)
        <4>1. here \in Marks'
          BY <1>4, <2>4, <3>1
        <4> QED
          BY <2>8, <4>1 DEF Leads
      <3>2. CASE b.level # Len(b.cone)
        <4>1. a.level - 1 = b.level
          BY <1>3, <2>2, <3>2
        <4>2. here = Dir(adding'[w].cone, adding'[w].level - 1)
              /\ adding'[w].pc = "mkdir"
          BY <2>2, <2>7, <3>2, <4>1 DEF here
        <4>3. here \in Held' \cap dirs'
          BY <1>9, <4>2, HeldIsNext
        <4> QED
          BY <2>8, <4>3 DEF Leads
      <3> QED
        BY <3>1, <3>2
    <2>9. ASSUME NEW d \in dirs, IsPrefix(d, above) PROVE Leads(d)'
      BY <1>6, <2>8, <2>9
    <2>10. ASSUME NEW d \in dirs' \ dirs PROVE Leads(d)'
      BY <1>7, <1>9, <2>8, <2>10
    <2>11. DirectoriesLead'
      BY <1>1, <1>2, <1>5, <1>9, <2>1, <2>3, <2>9, <2>10, CallKeepsLeads DEF above
    <2> QED
      BY <2>3, <2>5, <2>6, <2>11 DEF IInv
  <1>10. CASE above \notin dirs /\ dirs' = dirs
              /\ adding' = [adding EXCEPT ![w] = FromTheRoot(b)]
    <2> DEFINE a == FromTheRoot(b)
    <2>1. adding' = [adding EXCEPT ![w] = a]
      BY <1>10
    <2>2. a \in Calls /\ a.level \in 1..Len(a.cone) /\ a.pc = "mkdir"
          /\ a.cone = b.cone
      <3>1. Len(b.cone) \in Nat
        BY <1>3, ConePaths DEF Directory
      <3> QED
        BY <1>1, <1>3, <3>1 DEF Calls, FromTheRoot
    <2> HIDE DEF a
    <2>3. TypeOK'
      <3>1. /\ all' \in SUBSET Cone /\ dirs' \in SUBSET Dirs
            /\ faults' \in 0..MaxFaults /\ successes' \in [Cone -> 0..1]
        BY <1>1, <1>2, <1>10 DEF TypeOK
      <3> QED
        BY <1>1, <1>2, <2>1, <2>2, <3>1, CallStepTypes
    <2>4. Marks' = Marks
      BY <1>10 DEF Marks
    <2>5. CallShape'
      BY <1>1, <1>2, <1>5, <2>1, <2>2, <2>4, CallStepShape
    <2>6. ScanShape'
      BY <1>1, <1>2, <2>4, CallStepScan
    <2>7. DirectoriesLead'
      BY <1>1, <1>2, <1>5, <1>10, <2>1, <2>3, CallKeepsLeads DEF above
    <2> QED
      BY <2>3, <2>5, <2>6, <2>7 DEF IInv
  <1> QED
    BY <1>4, <1>8, <1>9, <1>10 DEF Mkdir, here

LEMMA ReturnTruePreserves ==
  ASSUME IInv, NEW w \in Worker, ReturnTrue(w)
  PROVE  IInv'
  <1> DEFINE c == adding[w].cone
  <1>1. /\ adding' = [adding EXCEPT ![w] = Idle] /\ adding[w].pc = "return"
        /\ successes' = [successes EXCEPT ![c] = @ + 1]
        /\ UNCHANGED <<all, dirs, unmark, faults, saved>>
    BY DEF ReturnTrue
  <1>2. TypeOK /\ CallShape /\ ScanShape /\ DirectoriesLead
    BY DEF IInv
  <1>3. Committed(w) /\ c \in Cone
    BY <1>1, <1>2, CallTypes DEF Committed
  <1>4. c \in all /\ successes[c] = 0
    BY <1>2, <1>3 DEF CallShape
  <1>5. /\ successes' \in [Cone -> 0..1] /\ successes'[c] = 1
        /\ \A k \in Cone \ {c} : successes'[k] = successes[k]
    BY <1>1, <1>2, <1>3, <1>4 DEF TypeOK
  <1>6. TypeOK'
    BY <1>1, <1>2, <1>5, CallStepTypes DEF TypeOK
  <1>7. Marks' = Marks
    BY <1>1 DEF Marks
  <1>8. CallShape'
    <2>1. ~ Committed(w)' /\ adding'[w].pc = "idle"
      BY <1>1, <1>2 DEF Idle, TypeOK, Committed
    <2>2. ASSUME NEW v \in Worker \ {w}
          PROVE  adding'[v] = adding[v] /\ (Committed(v)' <=> Committed(v))
                 /\ (Committed(v) => adding[v].cone # c)
      BY <1>1, <1>2, <1>3 DEF TypeOK, Committed, CallShape
    <2>3. ASSUME NEW v \in Worker
          PROVE  /\ Committed(v)' =>
                      adding'[v].cone \in all' /\ successes'[adding'[v].cone] = 0
                 /\ adding'[v].pc \in {"mkdir", "stat"} =>
                      adding'[v].cone \notin Marks' \cup retrieved'
                 /\ adding'[v].pc = "return" =>
                      adding'[v].cone \in Marks' \cup retrieved'
      <3>1. CASE v = w
        BY <2>1, <3>1
      <3>2. CASE v # w
        <4>1. Committed(v) => adding[v].cone \in Cone
          BY <1>2, CallTypes DEF Committed
        <4> QED
          BY <1>1, <1>2, <1>5, <1>7, <2>2, <3>2, <4>1 DEF CallShape, unmark
      <3> QED
        BY <3>1, <3>2
    <2>4. ASSUME NEW v \in Worker, NEW u \in Worker, Committed(v)',
                 Committed(u)', adding'[v].cone = adding'[u].cone
          PROVE  v = u
      BY <1>2, <2>1, <2>2, <2>4 DEF CallShape
    <2>5. Marks' \cup retrieved' \subseteq all'
          /\ \A k \in Cone : successes'[k] = 1 => k \in all'
      BY <1>1, <1>2, <1>4, <1>5, <1>7 DEF CallShape, unmark
    <2> QED
      BY <2>3, <2>4, <2>5 DEF CallShape
  <1>9. ScanShape'
    BY <1>1, <1>2, <1>7 DEF ScanShape, unmark
  <1>10. DirectoriesLead'
    <2>1. adding[w].pc # "mkdir" /\ adding[w].pc # "stat"
          /\ current' = current /\ path' = path
      BY <1>1 DEF unmark
    <2> QED
      BY <1>1, <1>2, <1>6, <2>1, CallKeepsLeads
  <1> QED
    BY <1>6, <1>8, <1>9, <1>10 DEF IInv

LEMMA AddFailsPreserves ==
  ASSUME IInv, NEW w \in Worker, AddFails(w)
  PROVE  IInv'
  <1> DEFINE a == Retry(adding[w])
  <1>1. /\ adding' = [adding EXCEPT ![w] = a] /\ adding[w].pc \in {"all", "mkdir"}
        /\ faults < MaxFaults /\ faults' = faults + 1
        /\ UNCHANGED <<all, dirs, unmark, successes, saved>>
    BY DEF AddFails
  <1>2. TypeOK /\ CallShape /\ ScanShape
    BY DEF IInv
  <1>3. adding[w] \in Calls /\ adding[w].level \in 1..Len(adding[w].cone)
    BY <1>1, <1>2, CallTypes
  <1>4. a = Failed \/ (a \in Calls /\ a.level \in 1..Len(a.cone) /\ a.pc = "all")
    BY <1>3, RetryIs
  <1> HIDE DEF a
  <1>5. faults' \in 0..MaxFaults /\ faults' # 0
    BY <1>1, <1>2, ConstantAssumption DEF TypeOK
  <1>6. TypeOK'
    BY <1>1, <1>2, <1>4, <1>5, CallStepTypes DEF TypeOK
  <1>7. Marks' = Marks
    BY <1>1 DEF Marks
  <1>8. CallShape'
    <2>1. UNCHANGED <<all, retrieved, successes>> /\ a.pc \in {"failed", "all"}
      BY <1>1, <1>4 DEF unmark, Failed
    <2> QED
      BY <1>1, <1>2, <1>7, <2>1, CallStepShape
  <1>9. ScanShape'
    BY <1>1, <1>2, <1>7, CallStepScan
  <1> QED
    BY <1>5, <1>6, <1>8, <1>9 DEF IInv, DirectoriesLead

\* Steps of unmarkCones() leave the calls alone.
LEMMA UnmarkStepTypes ==
  ASSUME TypeOK, UNCHANGED <<all, adding, successes, saved>>,
         dirs' \in SUBSET dirs, faults' \in 0..MaxFaults,
         unmarking' \in {"idle", "scanning", "removing", "failed"},
         limit' \in Nat, cones' \in SUBSET Cone, removed' \in SUBSET cones',
         current' \in Cone \cup {<<>>}, path' \in Dirs \cup {<<>>},
         try' \in 0..Boundary, seen' \in SUBSET Cone, retrieved' \in SUBSET Cone
  PROVE  TypeOK'
  BY DEF TypeOK

LEMMA UnmarkStepCalls ==
  ASSUME CallShape, UNCHANGED <<all, adding, successes>>,
         Marks' \cup retrieved' = Marks \cup retrieved
  PROVE  CallShape'
  <1> DEFINE m == Marks \cup retrieved
             n == Marks' \cup retrieved'
  <1>1. m = n
    OBVIOUS
  <1>2. \A w \in Worker : Committed(w)' <=> Committed(w)
    BY DEF Committed
  <1> HIDE DEF m, n
  <1> QED
    BY <1>1, <1>2 DEF CallShape, m, n

\* Directories that no step removes stay in use.
LEMMA UnmarkKeepsLeads ==
  ASSUME DirectoriesLead, UNCHANGED <<dirs, adding, faults>>,
         current # <<>> => UNCHANGED <<current, path>>
  PROVE  DirectoriesLead'
  <1> SUFFICES ASSUME faults = 0, NEW d \in dirs PROVE Leads(d)'
    BY DEF DirectoriesLead
  <1>1. Leads(d)
    BY DEF DirectoriesLead
  <1>2. Marks' = Marks /\ Held' = Held
    BY DEF Marks, Held
  <1> QED
    BY <1>1, <1>2 DEF Leads

LEMMA ConesAreFinite ==
  ASSUME TypeOK
  PROVE  IsFiniteSet(cones) /\ Cardinality(cones) \in Nat
         /\ IsFiniteSet(Cone) /\ Cardinality(Cone) \in Nat
  <1>1. IsFiniteSet(Cone) /\ cones \subseteq Cone
    BY ConstantAssumption DEF TypeOK
  <1>2. IsFiniteSet(cones)
    BY <1>1, FS_Subset
  <1> QED
    BY <1>1, <1>2, FS_CardinalityType

LEMMA BeginUnmarkPreserves ==
  ASSUME IInv, NEW n \in 0..Cardinality(Cone), BeginUnmark(n)
  PROVE  IInv'
  <1>1. /\ unmarking = "idle" /\ unmarking' = "scanning" /\ limit' = n
        /\ seen' = Marks
        /\ UNCHANGED <<all, dirs, adding, cones, removed, current, path, try,
                       retrieved, faults, successes, saved>>
    BY DEF BeginUnmark
  <1>2. TypeOK /\ CallShape /\ ScanShape /\ DirectoriesLead
    BY DEF IInv
  <1>3. n \in Nat /\ n >= 0
    BY <1>2, ConesAreFinite
  <1>4. TypeOK'
    BY <1>1, <1>2, <1>3, MarksAre, UnmarkStepTypes DEF TypeOK
  <1>5. Marks' = Marks
    BY <1>1 DEF Marks
  <1>6. CallShape'
    BY <1>1, <1>2, <1>5, UnmarkStepCalls
  <1>7. ScanShape'
    <2>1. cones = {} /\ Cardinality({}) = 0
      BY <1>1, <1>2, FS_EmptySet DEF ScanShape
    <2> QED
      BY <1>1, <1>2, <1>3, <1>5, <2>1 DEF ScanShape
  <1>8. DirectoriesLead'
    BY <1>1, <1>2, UnmarkKeepsLeads
  <1> QED
    BY <1>4, <1>6, <1>7, <1>8 DEF IInv

LEMMA FindConePreserves ==
  ASSUME IInv, NEW c \in Cone, FindCone(c)
  PROVE  IInv'
  <1>1. /\ unmarking = "scanning" /\ Cardinality(cones) < limit
        /\ c \in Marks \ cones /\ cones' = cones \cup {c}
        /\ UNCHANGED <<all, dirs, adding, unmarking, limit, removed, current, path,
                       try, seen, retrieved, faults, successes, saved>>
    BY DEF FindCone
  <1>2. TypeOK /\ CallShape /\ ScanShape /\ DirectoriesLead
    BY DEF IInv
  <1>3. TypeOK'
    BY <1>1, <1>2, UnmarkStepTypes DEF TypeOK
  <1>4. Marks' = Marks
    BY <1>1 DEF Marks
  <1>5. CallShape'
    BY <1>1, <1>2, <1>4, UnmarkStepCalls
  <1>6. ScanShape'
    <2>1. Cardinality(cones') = Cardinality(cones) + 1
      BY <1>1, <1>2, ConesAreFinite, FS_AddElement
    <2>2. Cardinality(cones') <= limit
      BY <1>1, <1>2, <2>1, ConesAreFinite DEF TypeOK
    <2> QED
      BY <1>1, <1>2, <1>4, <2>2 DEF ScanShape
  <1>7. DirectoriesLead'
    BY <1>1, <1>2, UnmarkKeepsLeads
  <1> QED
    BY <1>3, <1>5, <1>6, <1>7 DEF IInv

LEMMA EndScanPreserves ==
  ASSUME IInv, EndScan
  PROVE  IInv'
  <1>1. /\ unmarking = "scanning" /\ unmarking' = "removing" /\ limit' = 0
        /\ seen' = {} /\ retrieved' = retrieved \cup cones
        /\ UNCHANGED <<all, dirs, adding, cones, removed, current, path, try,
                       faults, successes, saved>>
    BY DEF EndScan
  <1>2. TypeOK /\ CallShape /\ ScanShape /\ DirectoriesLead
    BY DEF IInv
  <1>3. TypeOK'
    BY <1>1, <1>2, UnmarkStepTypes DEF TypeOK
  <1>4. Marks' = Marks /\ cones \subseteq Marks /\ removed = {}
        /\ Marks \cap retrieved = {} /\ current = <<>>
    BY <1>1, <1>2 DEF Marks, ScanShape
  <1>5. CallShape'
    BY <1>1, <1>2, <1>4, UnmarkStepCalls
  <1>6. ScanShape'
    BY <1>1, <1>4 DEF ScanShape
  <1>7. DirectoriesLead'
    BY <1>1, <1>2, UnmarkKeepsLeads
  <1> QED
    BY <1>3, <1>5, <1>6, <1>7 DEF IInv

LEMMA BeginRemovePreserves ==
  ASSUME IInv, NEW c \in Cone, BeginRemove(c)
  PROVE  IInv'
  <1>1. /\ unmarking = "removing" /\ current = <<>> /\ c \in cones \ removed
        /\ current' = c /\ path' = c /\ try' = 0
        /\ UNCHANGED <<all, dirs, adding, unmarking, limit, cones, removed, seen,
                       retrieved, faults, successes, saved>>
    BY DEF BeginRemove
  <1>2. TypeOK /\ CallShape /\ ScanShape /\ DirectoriesLead
    BY DEF IInv
  <1>3. c \in Dirs /\ c # <<>>
    <2>1. Len(c) \in 1..Len(c) /\ c \in Directory
      BY ConePaths DEF Directory
    <2> QED
      BY <2>1, DirFacts DEF Directory
  <1>4. TypeOK'
    BY <1>1, <1>2, <1>3, ConstantAssumption, UnmarkStepTypes DEF TypeOK
  <1>5. Marks' = Marks
    BY <1>1 DEF Marks
  <1>6. CallShape'
    BY <1>1, <1>2, <1>5, UnmarkStepCalls
  <1>7. ScanShape'
    BY <1>1, <1>2, <1>3, <1>5 DEF ScanShape
  <1>8. DirectoriesLead'
    BY <1>1, <1>2, UnmarkKeepsLeads
  <1> QED
    BY <1>4, <1>6, <1>7, <1>8 DEF IInv

LEMMA RemoveFailsPreserves ==
  ASSUME IInv, RemoveFails
  PROVE  IInv'
  <1>1. /\ unmarking = "removing" /\ current # <<>> /\ faults < MaxFaults
        /\ faults' = faults + 1
        /\ \/ unmarking' = "failed" /\ path' = path /\ try' = try
           \/ /\ unmarking' = "removing" /\ path' = current
              /\ try' = try + 1 /\ ~ (try >= Boundary)
        /\ UNCHANGED <<all, dirs, adding, limit, cones, removed, current, seen,
                       retrieved, successes, saved>>
    BY DEF RemoveFails
  <1>2. TypeOK /\ CallShape /\ ScanShape /\ DirectoriesLead
    BY DEF IInv
  <1>3. current \in Cone /\ current \in Dirs
    <2>1. current \in Cone
      BY <1>1, <1>2 DEF TypeOK
    <2>2. Len(current) \in 1..Len(current)
      BY <2>1, ConePaths DEF Directory
    <2>3. Dir(current, Len(current)) \in Dirs
          /\ Dir(current, Len(current)) = current
      BY <2>1, <2>2, DirFacts
    <2> QED
      BY <2>1, <2>3
  <1>4. faults' \in 0..MaxFaults /\ faults' # 0 /\ try' \in 0..Boundary
    BY <1>1, <1>2, ConstantAssumption DEF TypeOK
  <1>5. TypeOK'
    BY <1>1, <1>2, <1>3, <1>4, UnmarkStepTypes DEF TypeOK
  <1>6. Marks' = Marks
    BY <1>1 DEF Marks
  <1>7. CallShape'
    BY <1>1, <1>2, <1>6, UnmarkStepCalls
  <1>8. ScanShape'
    BY <1>1, <1>2, <1>6 DEF ScanShape
  <1> QED
    BY <1>4, <1>5, <1>7, <1>8 DEF IInv, DirectoriesLead

LEMMA EndUnmarkPreserves ==
  ASSUME IInv, EndUnmark
  PROVE  IInv'
  <1>1. /\ unmarking = "removing" /\ current = <<>> /\ removed = cones
        /\ unmarking' = "idle" /\ cones' = {} /\ removed' = {}
        /\ UNCHANGED <<all, dirs, adding, limit, current, path, try, seen,
                       retrieved, faults, successes, saved>>
    BY DEF EndUnmark
  <1>2. TypeOK /\ CallShape /\ ScanShape /\ DirectoriesLead
    BY DEF IInv
  <1>3. TypeOK'
    BY <1>1, <1>2, UnmarkStepTypes DEF TypeOK
  <1>4. Marks' = Marks /\ Marks \cap retrieved = {}
    BY <1>1, <1>2 DEF Marks, ScanShape
  <1>5. CallShape'
    BY <1>1, <1>2, <1>4, UnmarkStepCalls
  <1>6. ScanShape'
    BY <1>1, <1>4 DEF ScanShape
  <1>7. DirectoriesLead'
    BY <1>1, <1>2, UnmarkKeepsLeads
  <1> QED
    BY <1>3, <1>5, <1>6, <1>7 DEF IInv

\* A directory that is not empty leads to what its contents lead to; one that
\* is removed hands what led to it on to its parent.
LEMMA RmdirKeepsLeads ==
  ASSUME TypeOK, TypeOK', ScanShape, DirectoriesLead, Rmdir
  PROVE  DirectoriesLead'
  <1>1. /\ current # <<>> /\ path' = Parent(path)
        /\ dirs' = IF IsEmpty(path) THEN dirs \ {path} ELSE dirs
        /\ IF path' = <<>> THEN current' = <<>> ELSE current' = current
        /\ UNCHANGED <<adding, faults>>
    BY DEF Rmdir, Above
  <1>2. path \in Directory
    <2>1. path \in Dirs
      BY <1>1 DEF TypeOK, ScanShape
    <2> QED
      BY <2>1, DirsFacts
  <1>3. Held' = Held
    BY <1>1 DEF Held
  <1>4. Marks = dirs \cap Cone /\ Marks' = dirs' \cap Cone
    BY MarksAre, MarksAreNext
  <1> SUFFICES ASSUME faults' = 0, NEW d \in dirs' PROVE Leads(d)'
    BY DEF DirectoriesLead
  <1>5. d \in dirs /\ d \in Directory
    BY <1>1, DirsFacts DEF TypeOK
  \* What leads to a directory above the one to be removed.
  <1>6. ASSUME IsPrefix(d, path), d # path PROVE Leads(d)'
    <2>1. IsPrefix(d, path')
      BY <1>1, <1>2, <1>5, <1>6, PrefixOfParent
    <2>2. path' # <<>>
      BY <1>5, <2>1, PrefixOfNothing
    <2> QED
      BY <1>1, <2>1, <2>2 DEF Leads
  <1>7. CASE d = path
    <2>1. ~ IsEmpty(path) /\ dirs' = dirs
      BY <1>1, <1>7
    <2>2. PICK e \in dirs : Parent(e) = path
      BY <2>1 DEF IsEmpty
    <2>3. e \in Directory /\ path \in Seq(Name)
      BY <1>2, DirsFacts DEF TypeOK, Directory
    <2>4. IsPrefix(d, Parent(e))
      BY <1>7, <2>2, <2>3, PrefixOfItself
    <2>5. ~ IsPrefix(e, path)
      <3>1. Len(Parent(e)) = Len(e) - 1 /\ Len(e) \in Nat
        BY <2>3, ParentFacts DEF Directory
      <3>2. ~ (Len(e) <= Len(path))
        BY <2>2, <3>1
      <3> QED
        BY <3>2 DEF IsPrefix
    <2>6. Leads(e)
      BY <1>1, <2>2 DEF DirectoriesLead
    <2>7. CASE \E c \in Marks : IsPrefix(e, c)
      <3>1. PICK c \in Marks : IsPrefix(e, c)
        BY <2>7
      <3>2. c \in Seq(Name) /\ c \in Marks'
        BY <1>4, <2>1, <3>1, ConePaths DEF Directory
      <3>3. IsPrefix(d, c)
        BY <1>5, <2>3, <2>4, <3>1, <3>2, PrefixBelow
      <3> QED
        BY <3>2, <3>3 DEF Leads
    <2>8. CASE \E h \in Held \cap dirs : IsPrefix(e, h)
      <3>1. PICK h \in Held \cap dirs : IsPrefix(e, h)
        BY <2>8
      <3>2. h \in Seq(Name) /\ h \in Held' \cap dirs'
        BY <1>3, <2>1, <3>1, DirsFacts DEF Directory, TypeOK
      <3>3. IsPrefix(d, h)
        BY <1>5, <2>3, <2>4, <3>1, <3>2, PrefixBelow
      <3> QED
        BY <3>2, <3>3 DEF Leads
    <2> QED
      BY <2>5, <2>6, <2>7, <2>8 DEF Leads
  <1>8. CASE d # path
    <2>1. Leads(d)
      BY <1>1, <1>5 DEF DirectoriesLead
    <2>2. ASSUME NEW x \in dirs, IsPrefix(d, x), x \notin dirs' PROVE Leads(d)'
      <3>1. x = path
        BY <1>1, <2>2
      <3> QED
        BY <1>6, <1>8, <2>2, <3>1
    <2>3. CASE \E c \in Marks : IsPrefix(d, c)
      <3>1. PICK c \in Marks : IsPrefix(d, c)
        BY <2>3
      <3>2. CASE c \in dirs'
        BY <1>4, <3>1, <3>2 DEF Leads
      <3>3. CASE c \notin dirs'
        BY <1>4, <2>2, <3>1, <3>3
      <3> QED
        BY <3>2, <3>3
    <2>4. CASE \E h \in Held \cap dirs : IsPrefix(d, h)
      <3>1. PICK h \in Held \cap dirs : IsPrefix(d, h)
        BY <2>4
      <3>2. CASE h \in dirs'
        BY <1>3, <3>1, <3>2 DEF Leads
      <3>3. CASE h \notin dirs'
        BY <2>2, <3>1, <3>3
      <3> QED
        BY <3>2, <3>3
    <2>5. CASE IsPrefix(d, path)
      BY <1>6, <1>8, <2>5
    <2> QED
      BY <2>1, <2>3, <2>4, <2>5 DEF Leads
  <1> QED
    BY <1>7, <1>8

\* rmdir removes the mark of the cone being unmarked and no other.
LEMMA RmdirFacts ==
  ASSUME TypeOK, TypeOK', ScanShape, Rmdir
  PROVE  /\ Marks' = Marks \ {current} /\ current \in retrieved
         /\ current \in cones \ removed
         /\ path \in Dirs /\ current \in Cone
         /\ unmarking = "removing"
  <1>1. /\ current # <<>> /\ unmarking = "removing"
        /\ dirs' = IF IsEmpty(path) THEN dirs \ {path} ELSE dirs
    BY DEF Rmdir
  <1>2. current \in Cone /\ path \in Dirs /\ current \in cones \ removed
        /\ current \in retrieved
    BY <1>1 DEF TypeOK, ScanShape
  <1>3. Marks = dirs \cap Cone /\ Marks' = dirs' \cap Cone
    BY MarksAre, MarksAreNext
  <1>4. CASE path = current
    <2>1. IsEmpty(path)
      BY <1>2, <1>4, ConesAreLeaves
    <2> QED
      BY <1>1, <1>2, <1>3, <1>4, <2>1
  <1>5. CASE path # current
    <2>1. current \notin Marks /\ ~ isAtValidPosition(path)
      BY <1>1, <1>5 DEF ScanShape
    <2>2. path \notin Cone
      BY <1>2, <2>1, DirsFacts
    <2> QED
      BY <1>1, <1>2, <1>3, <2>1, <2>2
  <1> QED
    BY <1>1, <1>2, <1>4, <1>5

LEMMA RmdirPreserves ==
  ASSUME IInv, Rmdir
  PROVE  IInv'
  <1>1. /\ unmarking = "removing" /\ current # <<>> /\ path' = Parent(path)
        /\ dirs' = IF IsEmpty(path) THEN dirs \ {path} ELSE dirs
        /\ \/ path' = <<>> /\ current' = <<>> /\ removed' = removed \cup {current}
           \/ path' # <<>> /\ current' = current /\ removed' = removed
        /\ UNCHANGED <<all, adding, unmarking, limit, cones, try, seen, retrieved,
                       faults, successes, saved>>
    BY DEF Rmdir, Above
  <1>2. TypeOK /\ CallShape /\ ScanShape /\ DirectoriesLead
    BY DEF IInv
  <1>3. path \in Dirs /\ current \in cones
    BY <1>1, <1>2 DEF TypeOK, ScanShape
  <1>4. path' = <<>> \/ (path' \in Dirs /\ ~ isAtValidPosition(path'))
    BY <1>1, <1>3, DirsFacts
  <1>5. TypeOK'
    <2>1. dirs' \in SUBSET dirs /\ removed' \in SUBSET cones'
          /\ current' \in Cone \cup {<<>>} /\ path' \in Dirs \cup {<<>>}
      BY <1>1, <1>2, <1>3, <1>4 DEF TypeOK
    <2> QED
      BY <1>1, <1>2, <2>1, UnmarkStepTypes DEF TypeOK
  <1>6. Marks' = Marks \ {current} /\ current \in retrieved
        /\ current \in cones \ removed
    BY <1>2, <1>5, RmdirFacts
  <1>7. CallShape'
    <2>1. Marks' \cup retrieved' = Marks \cup retrieved
      BY <1>1, <1>6
    <2> QED
      BY <1>1, <1>2, <2>1, UnmarkStepCalls
  <1>8. ScanShape'
    <2>1. Marks' \cap retrieved' \subseteq cones' \ removed'
          /\ cones' \subseteq retrieved'
      BY <1>1, <1>2, <1>6 DEF ScanShape
    <2>2. ASSUME current' # <<>>
          PROVE  /\ current' \in cones' \ removed' /\ path' # <<>>
                 /\ path' # current' =>
                      current' \notin Marks' /\ ~ isAtValidPosition(path')
      BY <1>1, <1>4, <1>6, <2>2
    <2> QED
      BY <1>1, <2>1, <2>2 DEF ScanShape
  <1>9. DirectoriesLead'
    BY <1>2, <1>5, RmdirKeepsLeads
  <1> QED
    BY <1>5, <1>7, <1>8, <1>9 DEF IInv

LEMMA SavePreserves ==
  ASSUME IInv, Save
  PROVE  IInv'
  <1>1. /\ saved' \in [answer : {"true", "false"}, file : SUBSET all]
        /\ UNCHANGED <<all, dirs, adding, unmark, faults, successes>>
    BY DEF Save
  <1>2. Marks' = Marks
    BY <1>1 DEF Marks
  <1>3. TypeOK'
    <2>1. saved' \in [answer : {"none", "true", "false"}, file : SUBSET Cone]
      BY <1>1 DEF IInv, TypeOK
    <2> QED
      BY <1>1, <2>1 DEF IInv, TypeOK, unmark
  <1>4. CallShape'
    BY <1>1, <1>2, UnmarkStepCalls DEF IInv, unmark
  <1>5. ScanShape'
    BY <1>1, <1>2 DEF IInv, ScanShape, unmark
  <1>6. DirectoriesLead'
    BY <1>1, UnmarkKeepsLeads DEF IInv, unmark
  <1> QED
    BY <1>3, <1>4, <1>5, <1>6 DEF IInv

LEMMA StutterPreserves ==
  ASSUME IInv, UNCHANGED vars
  PROVE  IInv'
  <1>1. UNCHANGED <<all, dirs, adding, unmark, faults, successes, saved>>
    BY DEF vars
  <1>2. Marks' = Marks
    BY <1>1 DEF Marks
  <1>3. TypeOK'
    BY <1>1 DEF IInv, TypeOK, unmark
  <1>4. CallShape'
    BY <1>1, <1>2, UnmarkStepCalls DEF IInv, unmark
  <1>5. ScanShape'
    BY <1>1, <1>2 DEF IInv, ScanShape, unmark
  <1>6. DirectoriesLead'
    BY <1>1, UnmarkKeepsLeads DEF IInv, unmark
  <1> QED
    BY <1>3, <1>4, <1>5, <1>6 DEF IInv

LEMMA NextPreserves == IInv /\ [Next]_vars => IInv'
  <1> SUFFICES ASSUME IInv, [Next]_vars PROVE IInv'
    OBVIOUS
  <1>1. ASSUME NEW w \in Worker, Add(w) PROVE IInv'
    BY <1>1, AddToAllPreserves, MkdirPreserves, StatPreserves,
       ReturnTruePreserves DEF Add
  <1>2. ASSUME NEW w \in Worker, AddFails(w) PROVE IInv'
    BY <1>2, AddFailsPreserves
  <1>3. ASSUME NEW w \in Worker, NEW c \in Cone, Call(w, c) PROVE IInv'
    BY <1>3, CallPreserves
  <1>4. ASSUME NEW n \in 0..Cardinality(Cone), BeginUnmark(n) PROVE IInv'
    BY <1>4, BeginUnmarkPreserves
  <1>5. ASSUME Unmark PROVE IInv'
    BY <1>5, FindConePreserves, BeginRemovePreserves, EndScanPreserves,
       RmdirPreserves, EndUnmarkPreserves DEF Unmark
  <1>6. ASSUME Aborted PROVE IInv'
    BY <1>6, StutterPreserves DEF Aborted
  <1> QED
    BY <1>1, <1>2, <1>3, <1>4, <1>5, <1>6, RemoveFailsPreserves, SavePreserves,
       StutterPreserves DEF Next

\* The shape of the state of the storage is kept by every step of the code of
\* constant_conestorage.cpp and string_container.cpp.
THEOREM ConstantInvariant == Spec => []IInv
  BY InitIInv, NextPreserves, PTL DEF Spec

\* The variables keep their types: a call never leaves the path of its cone,
\* and no call is tried more often than BOUNDARY allows.
THEOREM ConstantTypeCorrect == Spec => []TypeOK
  <1>1. IInv => TypeOK
    BY DEF IInv
  <1> QED
    BY <1>1, ConstantInvariant, PTL

\* When no call is running and the file system has not failed, every directory
\* of _marked leads to a marked cone: removeIfEmpty() leaves nothing behind,
\* although workers create directories in the tree that it takes down.
THEOREM NothingLeftBehind == Spec => []NoEmptyDirectories
  <1>1. IInv => NoEmptyDirectories
    <2> SUFFICES ASSUME IInv, faults = 0, unmarking = "idle",
                        \A w \in Worker : adding[w] = Idle,
                        NEW d \in dirs
                 PROVE  \E c \in Marks : IsPrefix(d, c)
      BY DEF NoEmptyDirectories
    <2>1. Leads(d)
      BY DEF IInv, DirectoriesLead
    <2>2. current = <<>>
      BY DEF IInv, ScanShape
    <2>3. Held = {}
      BY HeldIs DEF Idle
    <2> QED
      BY <2>1, <2>2, <2>3 DEF Leads
  <1> QED
    BY <1>1, ConstantInvariant, PTL

-----------------------------------------------------------------------------
(* The containers keep the contract of IConeStorage *)

LEMMA ContractCardinality == \A S : Contract!Cardinality(S) = Cardinality(S)
  BY DEF Cardinality, Contract!Cardinality

\* What the contract calls marked.
Findable == IF unmarking \in {"removing", "failed"} THEN Marks \ cones ELSE Marks

\* The mark of a call is the last directory it makes.
LEMMA MkdirMarks ==
  ASSUME IInv, IInv', NEW w \in Worker, Mkdir(w)
  PROVE  \/ Marks' = Marks
         \/ /\ Marks' = Marks \cup {adding[w].cone}
            /\ adding[w].cone \in Cone
            /\ adding[w].cone \in all \ (Marks \cup retrieved)
  <1> DEFINE b == adding[w]
             here == Dir(b.cone, b.level)
  <1>1. b.pc = "mkdir" /\ (dirs' = dirs \/ dirs' = dirs \cup {here})
    BY DEF Mkdir
  <1>2. b.cone \in Cone /\ b.level \in 1..Len(b.cone)
    BY <1>1, CallTypes DEF IInv
  <1>3. here \in Cone => here = b.cone
    BY <1>2, DirFacts, ConePaths
  <1>4. Marks = dirs \cap Cone /\ Marks' = dirs' \cap Cone
    BY MarksAre, MarksAreNext DEF IInv
  <1>5. b.cone \in all \ (Marks \cup retrieved)
    BY <1>1 DEF IInv, CallShape, Committed
  <1> HIDE DEF b, here
  <1> QED
    BY <1>1, <1>2, <1>3, <1>4, <1>5 DEF b

LEMMA StepRefines ==
  ASSUME IInv, IInv', [Next]_vars
  PROVE  [Contract!Next]_(Contract!storageVars)
  <1> DEFINE scanning == unmarking = "scanning"
             Still == /\ Findable' = Findable
                      /\ UNCHANGED <<all, retrieved, successes, limit, seen>>
                      /\ scanning' <=> scanning
  <1>1. TypeOK /\ CallShape /\ ScanShape
    BY DEF IInv
  <1>2. ASSUME Still PROVE UNCHANGED Contract!storageVars
    BY <1>2 DEF Contract!storageVars, Findable
  <1>3. ASSUME NEW w \in Worker, AddToAll(w)
        PROVE  [Contract!Next]_(Contract!storageVars)
    <2> DEFINE c == adding[w].cone
    <2>1. /\ all' = all \cup {c} /\ UNCHANGED <<dirs, unmark, successes>>
          /\ c \in Cone
      BY <1>1, <1>3, CallTypes DEF AddToAll
    <2>2. Findable' = Findable
          /\ UNCHANGED <<retrieved, successes, limit, seen, unmarking>>
      BY <2>1 DEF Findable, Marks, unmark
    <2>3. CASE c \in all
      <3>1. all' = all
        BY <2>1, <2>3
      <3> QED
        BY <1>2, <2>2, <3>1
    <2>4. CASE c \notin all
      <3>1. Contract!Store(c)
        BY <2>1, <2>2, <2>4 DEF Contract!Store, Findable
      <3> QED
        BY <2>1, <3>1 DEF Contract!Next
    <2> QED
      BY <2>3, <2>4
  <1>4. ASSUME NEW w \in Worker, Mkdir(w)
        PROVE  [Contract!Next]_(Contract!storageVars)
    <2> DEFINE c == adding[w].cone
    <2>1. UNCHANGED <<all, retrieved, successes, limit, seen, unmarking, cones>>
      BY <1>4 DEF Mkdir, unmark
    <2>2. CASE Marks' = Marks
      BY <1>2, <2>1, <2>2 DEF Findable
    <2>3. CASE /\ Marks' = Marks \cup {c} /\ c \in Cone
               /\ c \in all \ (Marks \cup retrieved)
      <3>1. unmarking \in {"removing", "failed"} => c \notin cones
        BY <1>1, <2>3 DEF ScanShape
      <3>2. Findable' = Findable \cup {c} /\ c \notin Findable
        BY <2>1, <2>3, <3>1 DEF Findable
      <3>3. Contract!Mark(c)
        BY <2>1, <2>3, <3>2 DEF Contract!Mark, Findable
      <3> QED
        BY <2>3, <3>3 DEF Contract!Next
    <2> QED
      BY <1>4, <2>2, <2>3, MkdirMarks
  <1>5. ASSUME NEW w \in Worker, Stat(w) \/ AddFails(w) \/ \E c \in Cone : Call(w, c)
        PROVE  UNCHANGED Contract!storageVars
    <2>1. UNCHANGED <<all, dirs, unmark, successes>>
      BY <1>5 DEF Stat, AddFails, Call
    <2> QED
      BY <1>2, <2>1 DEF Findable, Marks, unmark
  <1>6. ASSUME NEW w \in Worker, ReturnTrue(w)
        PROVE  Contract!Next
    <2> DEFINE c == adding[w].cone
    <2>1. /\ adding[w].pc = "return" /\ UNCHANGED <<all, dirs, unmark>>
          /\ successes' = [successes EXCEPT ![c] = @ + 1]
      BY <1>6 DEF ReturnTrue
    <2>2. c \in Cone /\ successes[c] = 0 /\ c \in Marks \cup retrieved
      BY <1>1, <2>1, CallTypes DEF CallShape, Committed
    <2>3. c \in Findable \cup retrieved
      BY <1>1, <2>2 DEF Findable, ScanShape
    <2>4. successes' = [successes EXCEPT ![c] = 1]
      BY <1>1, <2>1, <2>2 DEF TypeOK
    <2>5. Findable' = Findable
          /\ UNCHANGED <<retrieved, limit, seen, unmarking>>
      BY <2>1 DEF Findable, Marks, unmark
    <2>6. Contract!Succeed(c)
      BY <2>1, <2>2, <2>3, <2>4, <2>5 DEF Contract!Succeed, Findable
    <2> QED
      BY <2>2, <2>6 DEF Contract!Next
  <1>7. ASSUME NEW n \in 0..Cardinality(Cone), BeginUnmark(n)
        PROVE  Contract!Next
    <2>1. /\ unmarking = "idle" /\ unmarking' = "scanning" /\ limit' = n
          /\ seen' = Marks /\ UNCHANGED <<all, dirs, retrieved, successes>>
      BY <1>7 DEF BeginUnmark
    <2>2. Marks' = Marks
      BY <2>1 DEF Marks
    <2>3. Contract!BeginUnmark(n)
      BY <2>1, <2>2 DEF Contract!BeginUnmark
    <2> QED
      BY <2>3, ContractCardinality DEF Contract!Next
  <1>8. ASSUME EndScan
        PROVE  Contract!Next
    <2>1. /\ unmarking = "scanning" /\ unmarking' = "removing" /\ limit' = 0
          /\ seen' = {} /\ retrieved' = retrieved \cup cones
          /\ Cardinality(cones) >= limit \/ seen \subseteq cones
          /\ UNCHANGED <<all, dirs, successes, cones>>
      BY <1>8 DEF EndScan
    <2>2. cones \subseteq Marks /\ Cardinality(cones) <= limit
      BY <1>1, <2>1 DEF ScanShape
    <2>3. Cardinality(cones) < limit => seen \subseteq cones
      BY <1>1, <2>1, ConesAreFinite DEF TypeOK
    <2>4. Marks' = Marks
      BY <2>1 DEF Marks
    <2>5. Contract!EndUnmark(cones)
      BY <2>1, <2>2, <2>3, <2>4, ContractCardinality DEF Contract!EndUnmark
    <2> QED
      BY <2>1, <2>2, <2>5 DEF Contract!Next
  <1>9. ASSUME NEW c \in Cone, FindCone(c) \/ BeginRemove(c)
        PROVE  UNCHANGED Contract!storageVars
    <2>1. UNCHANGED <<all, dirs, retrieved, successes, limit, seen, unmarking>>
      BY <1>9 DEF FindCone, BeginRemove
    <2>2. unmarking \in {"removing", "failed"} => cones' = cones
      BY <1>9 DEF FindCone, BeginRemove
    <2> QED
      BY <1>2, <2>1, <2>2 DEF Findable, Marks
  <1>10. ASSUME Rmdir
         PROVE  UNCHANGED Contract!storageVars
    <2>1. UNCHANGED <<all, retrieved, successes, limit, seen, unmarking, cones>>
      BY <1>10 DEF Rmdir
    <2>2. Marks' = Marks \ {current} /\ current \in cones
          /\ unmarking = "removing"
      BY <1>1, <1>10, RmdirFacts DEF IInv
    <2>3. Findable' = Findable
      BY <2>1, <2>2 DEF Findable
    <2> QED
      BY <1>2, <2>1, <2>3
  <1>11. ASSUME RemoveFails
         PROVE  UNCHANGED Contract!storageVars
    <2>1. UNCHANGED <<all, dirs, retrieved, successes, limit, seen, cones>>
      BY <1>11 DEF RemoveFails
    <2>2. unmarking = "removing" /\ unmarking' \in {"removing", "failed"}
      BY <1>11 DEF RemoveFails
    <2>3. Findable' = Findable
      BY <2>1, <2>2 DEF Findable, Marks
    <2> QED
      BY <1>2, <2>1, <2>2, <2>3
  <1>12. ASSUME EndUnmark
         PROVE  UNCHANGED Contract!storageVars
    <2>1. /\ unmarking = "removing" /\ unmarking' = "idle" /\ removed = cones
          /\ UNCHANGED <<all, dirs, retrieved, successes, limit, seen>>
      BY <1>12 DEF EndUnmark
    <2>2. Marks \cap cones = {} /\ Marks' = Marks
      BY <1>1, <2>1 DEF ScanShape, Marks
    <2>3. Findable' = Findable
      BY <2>1, <2>2 DEF Findable
    <2> QED
      BY <1>2, <2>1, <2>3
  <1>13. ASSUME Save \/ UNCHANGED vars
         PROVE  UNCHANGED Contract!storageVars
    <2>1. UNCHANGED <<all, dirs, unmark, successes>>
      BY <1>13 DEF Save, vars
    <2> QED
      BY <1>2, <2>1 DEF Findable, Marks, unmark
  <1> HIDE DEF Still
  <1> QED
    BY <1>3, <1>4, <1>5, <1>6, <1>7, <1>8, <1>9, <1>10, <1>11, <1>12, <1>13
       DEF Next, Add, Unmark, Aborted

\* Every behaviour of the containers is one that the contract of IConeStorage
\* allows, whatever the system calls of the workers and of unmarkCones() do to
\* the tree of directories, and with errors of the file system.
THEOREM ConstantKeepsContract == Spec => KeepsContract
  <1>1. Init => Contract!Init
    BY DEF Init, Contract!Init, Marks
  <1>2. IInv /\ IInv' /\ [Next]_vars => [Contract!Next]_(Contract!storageVars)
    BY StepRefines
  <1> QED
    BY <1>1, <1>2, ConstantInvariant, PTL DEF Spec, KeepsContract, Contract!Spec
=============================================================================
