----------------------- MODULE MCSimplexFaceIterator -----------------------
(***************************************************************************)
(* An iterator over every small simplex, moved by every sequence of steps. *)
(***************************************************************************)
EXTENDS SimplexFaceIterator, Conversion, StoragePaths

CONSTANTS
  MaxN,    \* the largest simplex
  MaxInc   \* the largest argument of increment()

ASSUME BoundAssumption == MaxN \in Nat /\ MaxInc \in Nat

VARIABLES
  least,   \* the size of the first faces
  it,      \* the iterator
  steps,   \* the sum of what increment() has returned
  asked    \* the sum of its arguments, as far as there are faces

vars == <<least, it, steps, asked>>

Init ==
  /\ least \in 0..MaxN
  /\ it \in {Iterator(n, Iota(least)) : n \in least..MaxN}
  /\ steps = 0
  /\ asked = 0

Increment(inc) ==
  LET result == increment(it, inc)
      rest == Cardinality(Faces(it.n, least)) - asked
  IN  /\ it' = result.it
      /\ steps' = steps + result.steps
      /\ asked' = asked + (IF inc <= rest THEN inc ELSE rest)
      /\ UNCHANGED least

Next == \E inc \in 0..MaxInc : Increment(inc)

Spec == Init /\ [][Next]_vars

\* increment() answers with the number of steps it took: all it was asked for,
\* as long as there are faces.
StepsReported == steps = asked

\* However the iterator was moved, it is at the face with as many faces before
\* it as it took steps: none is left out and none comes twice, and the end is
\* reached after the last one.
AtItsRank ==
  LET faces == Faces(it.n, least)
  IN  IF isEnd(it) THEN asked = Cardinality(faces)
      ELSE /\ Increasing(it.cur)
           /\ Elements(it.cur) \in faces
           /\ asked = Cardinality({f \in faces : Before(f, Elements(it.cur))})

\* The orbit of a face if the symmetries rotate the vertices.
Rotations(l) ==
  LET rotated == [k \in 1..it.n |-> {((v + k) % it.n) + 1 : v \in Elements(l)}]
      faces == SelectSeq([k \in 1..it.n |-> k],
                         LAMBDA k : \A j \in 1..(k - 1) : rotated[j] # rotated[k])
      sorted(f) == SelectSeq([v \in 1..it.n |-> v], LAMBDA v : v \in f)
  IN  IF it.n = 0 THEN <<l>>
      ELSE [i \in DOMAIN faces |-> sorted(rotated[faces[i]])]

\* The name of a face, as long as the number of vertices demands, leads back to
\* the face, and so does the way to Singular.  expand_orbits, which knows only
\* the length of the name, prints the names of its orbit, each once, and the
\* same ones whichever of them it starts from.
NamesRoundTrip ==
  LET hex == listToHexString(it.cur, it.n)
      orbit(name) ==
        expand_orbits(<<name>>, [l \in {hexStringToList(name)} |-> Rotations(l)])
      names == Range(orbit(hex).printed[1])
  IN  ~ isEnd(it) =>
        /\ ~ OutOfRange(it.cur, it.n)
        /\ Len(hex) = (it.n + 3) \div 4
        /\ hexStringToList(hex) = it.cur
        /\ hex \in names
        /\ orbit(hex).coneCount = Cardinality(names)
        /\ \A name \in names : Range(orbit(name).printed[1]) = names
        /\ \A asIntvec \in BOOLEAN :
             toList(toSingularList(<<it.cur, <<>>>>, asIntvec)) = <<it.cur, <<>>>>

\* However long the names of directories may be, the path of a cone leads back
\* to its name.  No directory above it is taken for a cone: those of
\* StringContainer lack the suffix, those of the linear storage are fewer
\* levels deep than any cone whose name is as long.
PathsRoundTrip ==
  LET hex == listToHexString(it.cur, 4 * it.n)
  IN  ~ isEnd(it) =>
        \A length \in 1..3 :
          LET path == asPath(hex, length)
          IN  /\ Accepted(hex)
              /\ asString(path) = hex
              /\ \A i \in DOMAIN path :
                   isAtValidPosition(SubSeq(path, 1, i)) = (i = Len(path))
              /\ getCone(pathForCone(hex, length)) = hex
              /\ \A i \in 1..(Len(pathForCone(hex, length)) - 1) :
                   Len(getCone(SubSeq(pathForCone(hex, length), 1, i))) < it.n
=============================================================================
