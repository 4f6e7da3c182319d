------------------------ MODULE FullDimAfacesProofs ------------------------
(***************************************************************************)
(* Proofs about FullDimAfaces, for every number of faces, every file, every*)
(* batch size and every choice of the faces that are kept.  The counter of *)
(* batches is right whatever the batches are.  Files are cut without gap   *)
(* and overlap.  That the iterator does the same is what TLC checks; the   *)
(* list is proved complete whenever the batches are right.                 *)
(***************************************************************************)
EXTENDS FullDimAfaces, DataLemmas

-----------------------------------------------------------------------------
(* Batches on their way *)

\* What the creation of a batch does to the net, whatever the batch is.
LEMMA BatchPutOut ==
  ASSUME create_simplex_faces_set
  PROVE  /\ control = "running" /\ ~ all_simplex_faces_created
         /\ \E start, length : PutOut(start, length)
         /\ number_of_unhandled_simplex_faces_sets' =
              number_of_unhandled_simplex_faces_sets + 1
         /\ UNCHANGED <<input, control, some_full_dim_afaces,
                        out_full_dim_afaces>>
  BY DEF create_simplex_faces_set, createSimplexFaces,
         createSimplexFacesFromFile

\* The faces of a batch depend on the file only.
LEMMA ResultsStay ==
  ASSUME UNCHANGED representatives, NEW b
  PROVE  FacesOf(b)' = FacesOf(b) /\ FaceSet(b)' = FaceSet(b)
         /\ Result(b)' = Result(b)
  <1>1. UsesFile' <=> UsesFile
    BY DEF UsesFile
  <1>2. FacesOf(b)' = FacesOf(b)
    BY <1>1 DEF FacesOf, loadListPartially
  <1> QED
    BY <1>2 DEF FaceSet, Result

\* The sets of batches on their way are finite.
LEMMA BatchesFinite ==
  ASSUME BatchShape
  PROVE  /\ IsFiniteSet(simplex_faces) /\ IsFiniteSet(some_full_dim_afaces)
         /\ Cardinality(simplex_faces) \in Nat
         /\ Cardinality(some_full_dim_afaces) \in Nat
         /\ Cardinality(batches) \in Nat
  <1>1. IsFiniteSet(batches) /\ IsFiniteSet(simplex_faces)
    BY FS_Subset DEF BatchShape
  <1>2. IsFiniteSet(some_full_dim_afaces)
    <2> DEFINE S == batches \ simplex_faces
               T == {Result(b) : b \in S}
               f == [b \in S |-> Result(b)]
    <2>1. IsFiniteSet(S)
      BY <1>1, FS_Subset
    <2>2. f \in Surjection(S, T)
      BY DEF Surjection
    <2>3. IsFiniteSet(T)
      <3> HIDE DEF S, T, f
      <3> QED
        BY <2>1, <2>2, FS_Surjection
    <2>4. some_full_dim_afaces \subseteq T
      BY DEF BatchShape
    <2> HIDE DEF S, T
    <2> QED
      BY <2>3, <2>4, FS_Subset
  <1> QED
    BY <1>1, <1>2, FS_CardinalityType

LEMMA InitCount == Init => CountInv
  BY FS_EmptySet DEF Init, CountInv, BatchShape, BatchesCounted

LEMMA CreateCounts ==
  ASSUME CountInv, create_simplex_faces_set
  PROVE  CountInv'
  <1>1. PICK start, length : PutOut(start, length)
    BY BatchPutOut
  <1> DEFINE b == [id |-> Cardinality(batches), start |-> start,
                   length |-> length]
  <1>2. /\ simplex_faces' = simplex_faces \cup {b}
        /\ batches' = batches \cup {b}
    BY <1>1 DEF PutOut
  <1>3. b.id = Cardinality(batches)
    OBVIOUS
  <1> HIDE DEF b
  <1>4. /\ control = "running" /\ control' = "running"
        /\ UNCHANGED <<representatives, some_full_dim_afaces>>
        /\ number_of_unhandled_simplex_faces_sets' =
             number_of_unhandled_simplex_faces_sets + 1
    BY BatchPutOut DEF input
  <1>5. BatchShape /\ BatchesCounted
    BY DEF CountInv
  <1>6. b \notin batches
    <2>1. Cardinality(batches) \in Nat
      BY <1>5, BatchesFinite
    <2> QED
      BY <1>3, <1>5, <2>1 DEF BatchShape
  <1>7. /\ IsFiniteSet(batches')
        /\ Cardinality(batches') = Cardinality(batches) + 1
        /\ IsFiniteSet(simplex_faces')
        /\ Cardinality(simplex_faces') = Cardinality(simplex_faces) + 1
    <2>1. b \notin simplex_faces
      BY <1>5, <1>6 DEF BatchShape
    <2>2. IsFiniteSet(batches) /\ IsFiniteSet(simplex_faces)
      BY <1>5, BatchesFinite DEF BatchShape
    <2> QED
      BY <1>2, <1>6, <2>1, <2>2, FS_AddElement
  <1>8. \A x \in batches' : x.id \in Nat /\ x.id < Cardinality(batches')
    <2>1. Cardinality(batches) \in Nat
      BY <1>5, BatchesFinite
    <2> QED
      BY <1>2, <1>3, <1>5, <1>7, <2>1 DEF BatchShape
  <1>9. some_full_dim_afaces' \subseteq
          {Result(x) : x \in batches \ simplex_faces}'
    <2> SUFFICES ASSUME NEW r \in some_full_dim_afaces
                 PROVE  \E x \in batches' \ simplex_faces' : r = Result(x)'
      BY <1>4
    <2>1. PICK x \in batches \ simplex_faces : r = Result(x)
      BY <1>5 DEF BatchShape
    <2>2. x \in batches' \ simplex_faces'
      BY <1>2, <1>6, <2>1
    <2> QED
      BY <1>4, <2>1, <2>2, ResultsStay
  <1>10. BatchShape'
    BY <1>2, <1>4, <1>5, <1>7, <1>8, <1>9 DEF BatchShape
  <1>11. BatchesCounted'
    <2>1. Cardinality(simplex_faces) \in Nat
          /\ Cardinality(some_full_dim_afaces) \in Nat
      BY <1>5, BatchesFinite
    <2> QED
      BY <1>4, <1>5, <1>7, <2>1 DEF BatchesCounted
  <1> QED
    BY <1>10, <1>11 DEF CountInv

LEMMA ComputeCounts ==
  ASSUME CountInv, NEW b \in simplex_faces, compute_full_dim_afaces(b)
  PROVE  CountInv'
  <1>1. /\ simplex_faces' = simplex_faces \ {b}
        /\ some_full_dim_afaces' = some_full_dim_afaces \cup {Result(b)}
        /\ UNCHANGED <<representatives, control, all_simplex_faces_created,
                       number_of_unhandled_simplex_faces_sets,
                       last_simplex_faces, out_full_dim_afaces, batches>>
    BY DEF compute_full_dim_afaces, input
  <1>2. BatchShape /\ BatchesCounted /\ control # "finished"
        /\ control # "enabled"
    BY DEF CountInv, BatchShape
  <1>3. Result(b) \notin some_full_dim_afaces
    <2>1. Result(b).of = b
      BY DEF Result
    <2>2. ASSUME NEW x, Result(x) = Result(b) PROVE x = b
      BY <2>1, <2>2 DEF Result
    <2>3. some_full_dim_afaces \subseteq {Result(x) : x \in batches \ simplex_faces}
      BY <1>2 DEF BatchShape
    <2> QED
      BY <2>2, <2>3
  <1>4. /\ IsFiniteSet(simplex_faces')
        /\ Cardinality(simplex_faces') = Cardinality(simplex_faces) - 1
        /\ Cardinality(some_full_dim_afaces') = Cardinality(some_full_dim_afaces) + 1
    BY <1>1, <1>2, <1>3, BatchesFinite, FS_RemoveElement, FS_AddElement
  <1>5. some_full_dim_afaces' \subseteq
          {Result(x) : x \in batches \ simplex_faces}'
    <2> SUFFICES ASSUME NEW r \in some_full_dim_afaces'
                 PROVE  \E x \in batches' \ simplex_faces' : r = Result(x)'
      OBVIOUS
    <2>1. CASE r = Result(b)
      <3>1. b \in batches' \ simplex_faces'
        BY <1>1, <1>2 DEF BatchShape
      <3> QED
        BY <1>1, <2>1, <3>1, ResultsStay
    <2>2. CASE r \in some_full_dim_afaces
      <3>1. PICK x \in batches \ simplex_faces : r = Result(x)
        BY <1>2, <2>2 DEF BatchShape
      <3> QED
        BY <1>1, <3>1, ResultsStay
    <2> QED
      BY <1>1, <2>1, <2>2
  <1>6. BatchShape'
    BY <1>1, <1>2, <1>5 DEF BatchShape
  <1>7. BatchesCounted'
    <2>1. Cardinality(simplex_faces) \in Nat
          /\ Cardinality(some_full_dim_afaces) \in Nat
      BY <1>2, BatchesFinite
    <2> QED
      BY <1>1, <1>2, <1>4, <2>1 DEF BatchesCounted
  <1> QED
    BY <1>6, <1>7 DEF CountInv

LEMMA AggregateCounts ==
  ASSUME CountInv, NEW r \in some_full_dim_afaces, aggregate_full_dim_afaces(r)
  PROVE  CountInv'
  <1>1. /\ some_full_dim_afaces' = some_full_dim_afaces \ {r}
        /\ number_of_unhandled_simplex_faces_sets' =
             number_of_unhandled_simplex_faces_sets - 1
        /\ UNCHANGED <<representatives, control, all_simplex_faces_created,
                       last_simplex_faces, simplex_faces, batches>>
    BY DEF aggregate_full_dim_afaces, Join, input
  <1>2. BatchShape /\ BatchesCounted
    BY DEF CountInv
  <1>3. control # "finished" /\ control # "enabled"
    BY <1>2 DEF BatchShape
  <1>4. some_full_dim_afaces' \subseteq
          {Result(x) : x \in batches \ simplex_faces}'
    <2> SUFFICES ASSUME NEW q \in some_full_dim_afaces
                 PROVE  \E x \in batches' \ simplex_faces' : q = Result(x)'
      BY <1>1
    <2>1. PICK x \in batches \ simplex_faces : q = Result(x)
      BY <1>2 DEF BatchShape
    <2> QED
      BY <1>1, <2>1, ResultsStay
  <1>5. BatchShape'
    BY <1>1, <1>2, <1>3, <1>4 DEF BatchShape
  <1>6. BatchesCounted'
    <2>1. Cardinality(some_full_dim_afaces') = Cardinality(some_full_dim_afaces) - 1
      BY <1>1, <1>2, BatchesFinite, FS_RemoveElement
    <2>2. Cardinality(simplex_faces) \in Nat
          /\ Cardinality(some_full_dim_afaces) \in Nat
      BY <1>2, BatchesFinite
    <2> QED
      BY <1>1, <1>2, <2>1, <2>2 DEF BatchesCounted
  <1> QED
    BY <1>5, <1>6 DEF CountInv

\* Steps that move no batch.
LEMMA ResultsOfTheSame ==
  ASSUME BatchShape, UNCHANGED <<representatives, simplex_faces, batches,
                                 some_full_dim_afaces>>
  PROVE  some_full_dim_afaces' \subseteq
           {Result(x) : x \in batches \ simplex_faces}'
  <1> SUFFICES ASSUME NEW q \in some_full_dim_afaces
               PROVE  \E x \in batches' \ simplex_faces' : q = Result(x)'
    OBVIOUS
  <1>1. PICK x \in batches \ simplex_faces : q = Result(x)
    BY DEF BatchShape
  <1> QED
    BY <1>1, ResultsStay

LEMMA StartCounts ==
  ASSUME CountInv, Start
  PROVE  CountInv'
  <1>1. BatchShape
    BY DEF CountInv
  <1>2. /\ control = "enabled" /\ control' = "running"
        /\ number_of_unhandled_simplex_faces_sets' = 0
        /\ UNCHANGED <<representatives, simplex_faces, batches,
                       some_full_dim_afaces>>
    BY DEF Start, input
  <1>3. batches = {} /\ simplex_faces = {} /\ some_full_dim_afaces = {}
    BY <1>1, <1>2 DEF BatchShape
  <1>4. BatchShape'
    BY <1>1, <1>2, ResultsOfTheSame DEF BatchShape
  <1>5. BatchesCounted'
    BY <1>2, <1>3, FS_EmptySet DEF BatchesCounted
  <1> QED
    BY <1>4, <1>5 DEF CountInv

LEMMA CleanCounts ==
  ASSUME CountInv, clean
  PROVE  CountInv'
  <1>1. BatchShape /\ BatchesCounted
    BY DEF CountInv
  <1>2. /\ control = "running" /\ control' = "finished"
        /\ number_of_unhandled_simplex_faces_sets = 0
        /\ all_simplex_faces_created
        /\ UNCHANGED <<representatives, simplex_faces, batches,
                       some_full_dim_afaces, all_simplex_faces_created>>
    BY DEF clean, input
  <1>3. simplex_faces = {} /\ some_full_dim_afaces = {}
    <2>1. Cardinality(simplex_faces) + Cardinality(some_full_dim_afaces) = 0
      BY <1>1, <1>2 DEF BatchesCounted
    <2>2. Cardinality(simplex_faces) = 0 /\ Cardinality(some_full_dim_afaces) = 0
      BY <1>1, <2>1, BatchesFinite
    <2> QED
      BY <1>1, <2>2, BatchesFinite, FS_EmptySet
  <1>4. BatchShape'
    BY <1>1, <1>2, <1>3, ResultsOfTheSame DEF BatchShape
  <1>5. BatchesCounted'
    BY <1>2 DEF BatchesCounted
  <1> QED
    BY <1>4, <1>5 DEF CountInv

LEMMA StutterCounts ==
  ASSUME CountInv, UNCHANGED vars
  PROVE  CountInv'
  <1>1. UNCHANGED <<representatives, control, all_simplex_faces_created,
                    number_of_unhandled_simplex_faces_sets, last_simplex_faces,
                    simplex_faces, some_full_dim_afaces, out_full_dim_afaces,
                    batches>>
    BY DEF vars, input
  <1>2. BatchShape'
    BY <1>1, ResultsOfTheSame DEF CountInv, BatchShape
  <1>3. BatchesCounted'
    BY <1>1 DEF CountInv, BatchesCounted
  <1> QED
    BY <1>2, <1>3 DEF CountInv

LEMMA NextCounts == CountInv /\ [Next]_vars => CountInv'
  <1> SUFFICES ASSUME CountInv, [Next]_vars PROVE CountInv'
    OBVIOUS
  <1> QED
    BY CreateCounts, ComputeCounts, AggregateCounts, StartCounts, CleanCounts,
       StutterCounts DEF Next, Finished

\* Whatever batches are created, from the iterator or a file, empty ones too,
\* each is in one place until its result is joined.
THEOREM AfacesInvariant == Spec => []CountInv
  BY InitCount, NextCounts, PTL DEF Spec

\* The counter that create_simplex_faces_set increments and
\* aggregate_full_dim_afaces decrements is the number of batches that no worker
\* has taken or whose result is not joined, so that clean does not overtake
\* any.
THEOREM AfacesBatchesCounted == Spec => []BatchesCounted
  <1>1. CountInv => BatchesCounted
    BY DEF CountInv
  <1> QED
    BY <1>1, AfacesInvariant, PTL

-----------------------------------------------------------------------------
(* Files are cut without gap and overlap *)

LEMMA FileFacts ==
  ASSUME FileShape, UsesFile
  PROVE  /\ representatives.lines \in Seq(Seq(Nat))
         /\ Len(representatives.lines) \in Nat
         /\ DOMAIN representatives.lines = 1..Len(representatives.lines)
         /\ job_size \in Nat /\ job_size > 0
         /\ \A i \in 1..Len(representatives.lines) :
              Elements(representatives.lines[i]) \in Faces(R, K)
         /\ \A i, j \in 1..Len(representatives.lines) :
              Elements(representatives.lines[i]) =
                Elements(representatives.lines[j]) => i = j
  <1>1. representatives \in Files /\ job_size \in JobSizes
    BY DEF FileShape
  <1>2. job_size \in Nat /\ job_size > 0
    BY <1>1, AfacesAssumption
  <1>3. representatives.lines \in Seq(Seq(Nat))
    BY <1>1, AfacesAssumption
  <1>4. /\ \A i \in DOMAIN representatives.lines :
             Elements(representatives.lines[i]) \in Faces(R, K)
        /\ \A i, j \in DOMAIN representatives.lines :
             Elements(representatives.lines[i]) =
               Elements(representatives.lines[j]) => i = j
    BY <1>1, AfacesAssumption, Zenon
  <1>5. DOMAIN representatives.lines = 1..Len(representatives.lines)
        /\ Len(representatives.lines) \in Nat
    BY <1>3
  <1> QED
    BY <1>2, <1>3, <1>4, <1>5

LEMMA InitFile == Init => FileShape
  <1> SUFFICES ASSUME Init, UsesFile PROVE FileShape
    BY DEF FileShape
  <1>1. /\ representatives \in Files /\ job_size \in JobSizes
        /\ batches = {} /\ last_simplex_faces.start = <<>>
        /\ ~ all_simplex_faces_created
    BY DEF Init, UsesFile
  <1>2. Len(representatives.lines) \in Nat
    BY <1>1, AfacesAssumption
  <1>3. Position = 0
    BY <1>1 DEF Position
  <1>4. UNION {LinesOf(b) : b \in batches} = 1..Position
    BY <1>1, <1>3
  <1> QED
    BY <1>1, <1>2, <1>3, <1>4 DEF FileShape

\* The next batch starts where the file is read up to, and reads on to where
\* the one after it starts, or to the end of the file.
LEMMA CreateFromFile ==
  ASSUME FileShape, UsesFile, create_simplex_faces_set
  PROVE  FileShape'
  <1> DEFINE lines == representatives.lines
             pos == IF last_simplex_faces.start = <<>> THEN 0
                    ELSE last_simplex_faces.start[2]
             left == Len(lines) - pos
             readLines == IF job_size <= left THEN job_size ELSE left
             end == EndOfFile(left)
             tellg == IF end THEN -1 ELSE pos + readLines
             b == [id |-> Cardinality(batches), start |-> <<pos, tellg>>,
                   length |-> readLines]
  <1>1. /\ ~ all_simplex_faces_created
        /\ batches' = batches \cup {b}
        /\ last_simplex_faces' = [start |-> <<pos, tellg>>, length |-> readLines]
        /\ all_simplex_faces_created' = end
        /\ UNCHANGED <<representatives, job_size>>
    BY DEF create_simplex_faces_set, createSimplexFacesFromFile, PutOut, input
  <1>2. Len(lines) \in Nat /\ job_size \in Nat /\ job_size > 0
        /\ representatives \in Files /\ job_size \in JobSizes
    BY FileFacts DEF FileShape
  <1>3. pos = Position /\ pos \in Nat /\ pos <= Len(lines)
    <2>1. pos = Position
      BY <1>1 DEF Position
    <2>2. Position \in 0..Len(lines)
      BY DEF FileShape
    <2> HIDE DEF pos, lines
    <2> QED
      BY <1>2, <2>1, <2>2
  <1>4. /\ readLines \in Nat /\ pos + readLines <= Len(lines)
        /\ end => pos + readLines = Len(lines)
    <2>1. left \in Nat /\ pos + left = Len(lines)
      <3> HIDE DEF pos, lines
      <3> QED
        BY <1>2, <1>3
    <2>2. end => readLines = left
      <3> HIDE DEF pos, lines, left
      <3> QED
        BY <1>2, <2>1 DEF EndOfFile
    <2> HIDE DEF pos, lines, left, end
    <2> QED
      BY <1>2, <1>3, <2>1, <2>2
  <1>5. /\ b.start[1] = pos /\ b.length = readLines
        /\ last_simplex_faces'.start # <<>> /\ last_simplex_faces'.start[2] = tellg
        /\ end \in BOOLEAN
    BY <1>1 DEF EndOfFile
  <1>6. Position' = pos + readLines
    <2>1. Position' = IF all_simplex_faces_created' THEN Len(lines) ELSE tellg
      BY <1>1, <1>5 DEF Position
    <2> QED
      BY <1>1, <1>4, <2>1
  <1> HIDE DEF lines, pos, left, readLines, end, tellg, b
  <1>7. UsesFile' /\ representatives' = representatives
    BY <1>1 DEF UsesFile
  <1>8. Position' \in 0..Len(representatives'.lines)
    BY <1>2, <1>3, <1>4, <1>6, <1>7 DEF lines
  <1>9. LinesOf(b) = pos + 1 .. pos + readLines
    BY <1>5 DEF LinesOf
  <1>10. UNION {LinesOf(x) : x \in batches} = 1..pos
    BY <1>3 DEF FileShape
  <1>11. ASSUME NEW x \in batches PROVE LinesOf(x) \cap LinesOf(b) = {}
    <2>1. LinesOf(x) \subseteq 1..pos
      BY <1>10
    <2>2. (1..pos) \cap (pos + 1 .. pos + readLines) = {}
      BY <1>3, <1>4
    <2> QED
      BY <1>9, <2>1, <2>2
  <1>12. ASSUME NEW x \in batches', NEW y \in batches', x # y
         PROVE  LinesOf(x) \cap LinesOf(y) = {}
    BY <1>1, <1>11, <1>12 DEF FileShape
  <1>13. UNION {LinesOf(x) : x \in batches'} = 1..Position'
    <2>1. UNION {LinesOf(x) : x \in batches'} =
            (UNION {LinesOf(x) : x \in batches}) \cup LinesOf(b)
      BY <1>1
    <2>2. (1..pos) \cup (pos + 1 .. pos + readLines) = 1..(pos + readLines)
      BY <1>3, <1>4
    <2> QED
      BY <1>6, <1>9, <1>10, <2>1, <2>2
  <1>14. \A x \in batches' : x.start[1] \in Nat /\ x.length \in Nat
    BY <1>1, <1>3, <1>4, <1>5 DEF FileShape
  <1>15. /\ representatives' \in Files /\ job_size' \in JobSizes
         /\ last_simplex_faces'.start # <<>>
    BY <1>1, <1>2, <1>5
  <1> QED
    BY <1>8, <1>12, <1>13, <1>14, <1>15 DEF FileShape, LinesOf

LEMMA NextFile == CountInv /\ FileShape /\ [Next]_vars => FileShape'
  <1> SUFFICES ASSUME CountInv, FileShape, [Next]_vars, UsesFile'
               PROVE  FileShape'
    BY DEF FileShape
  <1>1. UNCHANGED <<representatives, job_size>>
    BY DEF Next, Start, create_simplex_faces_set, compute_full_dim_afaces,
           aggregate_full_dim_afaces, Join, clean, Finished, vars, input
  <1>2. UsesFile
    BY <1>1 DEF UsesFile
  <1>3. CASE create_simplex_faces_set
    BY <1>2, <1>3, CreateFromFile
  <1>4. CASE Start
    <2>1. batches = {} /\ ~ all_simplex_faces_created
          /\ last_simplex_faces.start = <<>>
      BY <1>4 DEF CountInv, BatchShape, Start
    <2>2. /\ batches' = batches /\ last_simplex_faces'.start = <<>>
          /\ all_simplex_faces_created' = FALSE
      BY <1>4 DEF Start
    <2>3. Position' = Position
      BY <2>1, <2>2 DEF Position
    <2> QED
      BY <1>1, <1>2, <2>1, <2>2, <2>3 DEF FileShape, LinesOf
  <1>5. CASE UNCHANGED <<batches, last_simplex_faces, all_simplex_faces_created>>
    <2>1. Position' = Position
      BY <1>1, <1>5 DEF Position
    <2> QED
      BY <1>1, <1>2, <1>5, <2>1 DEF FileShape, LinesOf
  <1> QED
    BY <1>3, <1>4, <1>5
       DEF Next, compute_full_dim_afaces, aggregate_full_dim_afaces, Join,
           clean, Finished, vars

\* Every file is cut into batches without gap and overlap, with or without a
\* newline at its end and whatever the batch size, the empty file too.
THEOREM FileIsCut == Spec => []FileShape
  BY InitFile, NextFile, AfacesInvariant, PTL DEF Spec

\* The faces of a batch, as loadListPartially() reads them.
LEMMA FacesInFile ==
  ASSUME FileShape, UsesFile, NEW b \in batches
  PROVE  /\ FacesOf(b) = [i \in 1..b.length |->
                            Elements(representatives.lines[b.start[1] + i])]
         /\ b.length \in Nat /\ b.start[1] \in Nat
         /\ LinesOf(b) \subseteq 1..Len(representatives.lines)
         /\ FaceSet(b) = {Elements(representatives.lines[i]) : i \in LinesOf(b)}
         /\ Cardinality(FaceSet(b)) = b.length
  <1> DEFINE lines == representatives.lines
             pos == b.start[1]
             n == b.length
             part == loadListPartially(pos, n)
  <1>1. pos \in Nat /\ n \in Nat /\ LinesOf(b) = pos + 1 .. pos + n
    BY DEF FileShape, LinesOf
  <1>2. lines \in Seq(Seq(Nat)) /\ Len(lines) \in Nat
    BY FileFacts
  <1>3. LinesOf(b) \subseteq 1..Len(lines)
    <2>1. LinesOf(b) \subseteq 1..Position /\ Position \in 0..Len(lines)
      BY DEF FileShape
    <2> HIDE DEF lines
    <2> QED
      BY <1>2, <2>1
  <1>4. n = 0 \/ pos + n <= Len(lines)
    <2>1. n # 0 => pos + n \in LinesOf(b)
      <3> HIDE DEF pos, n
      <3> QED
        BY <1>1
    <2> QED
      BY <1>1, <1>2, <1>3, <2>1
  <1>5. Len(part) = n /\ \A i \in 1..n : part[i] = lines[pos + i]
    <2> HIDE DEF pos, n
    <2>1. CASE pos + n <= Len(lines)
      <3>1. part = SubSeq(lines, pos + 1, pos + n)
        BY <2>1 DEF loadListPartially
      <3> HIDE DEF lines, part
      <3>2. pos + 1 \in Nat /\ pos + n \in Nat
        BY <1>1
      <3>3. SubSeq(lines, pos + 1, pos + n) =
              [i \in 1 .. (pos + n) - (pos + 1) + 1 |-> lines[i + (pos + 1) - 1]]
        BY <1>1, <1>2, <2>1, <3>2
      <3>4. (pos + n) - (pos + 1) + 1 = n
        BY <1>1
      <3>5. \A i \in 1..n : i + (pos + 1) - 1 = pos + i
        BY <1>1
      <3>6. part = [i \in 1..n |-> lines[i + (pos + 1) - 1]]
        BY <3>1, <3>3, <3>4
      <3>7. Len(part) = n
        BY <1>1, <3>6
      <3> QED
        BY <3>5, <3>6, <3>7
    <2>2. CASE n = 0 /\ ~ (pos + n <= Len(lines))
      <3>1. part = SubSeq(lines, pos + 1, Len(lines))
        BY <2>2 DEF loadListPartially
      <3> HIDE DEF lines, part
      <3>2. pos + 1 > Len(lines) /\ pos + 1 \in Nat
        BY <1>1, <1>2, <2>2
      <3>3. Len(SubSeq(lines, pos + 1, Len(lines))) = 0
        BY <1>2, <3>2
      <3>4. Len(part) = 0
        BY <3>1, <3>3, Zenon
      <3>5. 1..n = {}
        BY <2>2
      <3> QED
        BY <2>2, <3>4, <3>5
    <2> QED
      BY <1>4, <2>1, <2>2
  <1>6. FacesOf(b) = [i \in 1..n |-> Elements(lines[pos + i])]
    <2>1. FacesOf(b) = [i \in 1..Len(part) |-> Elements(part[i])]
      BY DEF FacesOf
    <2> HIDE DEF part, lines, pos, n
    <2> QED
      BY <1>5, <2>1
  <1>7. FaceSet(b) = {Elements(lines[i]) : i \in LinesOf(b)}
    <2>1. FaceSet(b) = {Elements(lines[pos + i]) : i \in 1..n}
      BY <1>6 DEF FaceSet, Range
    <2> HIDE DEF lines, pos, n
    <2>2. ASSUME NEW i \in 1..n PROVE pos + i \in LinesOf(b)
      BY <1>1
    <2>3. ASSUME NEW j \in LinesOf(b) PROVE \E i \in 1..n : j = pos + i
      <3>1. j - pos \in 1..n /\ j = pos + (j - pos)
        BY <1>1
      <3> QED
        BY <3>1
    <2> QED
      BY <2>1, <2>2, <2>3
  <1>8. Cardinality(FaceSet(b)) = n
    <2> DEFINE S == 1..n
               f == [i \in S |-> Elements(lines[pos + i])]
    <2>1. IsFiniteSet(S) /\ Cardinality(S) = n
      BY <1>1, FS_Interval
    <2>2. f \in [S -> FaceSet(b)] /\ \A z \in FaceSet(b) : \E x \in S : f[x] = z
      BY <1>6 DEF FaceSet, Range
    <2>3. \A x, y \in S : f[x] = f[y] => x = y
      <3> SUFFICES ASSUME NEW x \in S, NEW y \in S,
                          Elements(lines[pos + x]) = Elements(lines[pos + y])
                   PROVE  x = y
        OBVIOUS
      <3>1. pos + x \in 1..Len(lines) /\ pos + y \in 1..Len(lines)
        <4>1. pos + x \in LinesOf(b) /\ pos + y \in LinesOf(b)
          <5> HIDE DEF pos, n
          <5> QED
            BY <1>1
        <4> QED
          BY <1>3, <4>1
      <3>2. pos + x = pos + y
        BY <3>1, FileFacts
      <3> HIDE DEF pos, n
      <3> QED
        BY <1>1, <3>2
    <2> HIDE DEF S, f
    <2> QED
      BY <2>1, <2>2, <2>3, OneToOne
  <1> QED
    BY <1>1, <1>3, <1>6, <1>7, <1>8

LEMMA FilePartition == FileShape => (UsesFile => FacesPartition)
  <1> SUFFICES ASSUME FileShape, UsesFile PROVE FacesPartition
    OBVIOUS
  <1> DEFINE lines == representatives.lines
             Face(i) == Elements(lines[i])
  <1>1. /\ Len(lines) \in Nat /\ DOMAIN lines = 1..Len(lines)
        /\ \A i, j \in 1..Len(lines) : Face(i) = Face(j) => i = j
    BY FileFacts
  <1>2. ASSUME NEW b \in batches
        PROVE  /\ LinesOf(b) \subseteq 1..Len(lines)
               /\ FaceSet(b) = {Face(i) : i \in LinesOf(b)}
               /\ Cardinality(FaceSet(b)) = b.length
    BY FacesInFile
  <1>3. AllFaces = {Face(i) : i \in 1..Len(lines)}
    BY <1>1 DEF AllFaces
  <1>4. Position \in 0..Len(lines) /\ UNION {LinesOf(b) : b \in batches} = 1..Position
    BY DEF FileShape
  <1>5. all_simplex_faces_created => Position = Len(lines)
    BY DEF FileShape, Position
  <1> HIDE DEF lines, Face
  <1>6. ASSUME NEW b \in batches, NEW c \in batches, b # c
        PROVE  FaceSet(b) \cap FaceSet(c) = {}
    <2> SUFFICES ASSUME NEW f \in FaceSet(b), f \in FaceSet(c) PROVE FALSE
      OBVIOUS
    <2>1. PICK i \in LinesOf(b) : f = Face(i)
      BY <1>2
    <2>2. PICK j \in LinesOf(c) : f = Face(j)
      BY <1>2
    <2>3. i = j
      BY <1>1, <1>2, <2>1, <2>2
    <2>4. LinesOf(b) \cap LinesOf(c) = {}
      BY <1>6 DEF FileShape
    <2> QED
      BY <2>1, <2>2, <2>3, <2>4
  <1>7. Created \subseteq AllFaces
    BY <1>2, <1>3 DEF Created
  <1>8. ASSUME all_simplex_faces_created PROVE AllFaces \subseteq Created
    <2> SUFFICES ASSUME NEW i \in 1..Len(lines) PROVE Face(i) \in Created
      BY <1>3
    <2>1. i \in UNION {LinesOf(b) : b \in batches}
      BY <1>4, <1>5, <1>8
    <2>2. PICK b \in batches : i \in LinesOf(b)
      BY <2>1
    <2> QED
      BY <1>2, <2>2 DEF Created
  <1> QED
    BY <1>2, <1>6, <1>7, <1>8 DEF FacesPartition

\* The batches of a file share no face, have as many as their length says, and
\* in the end have every face of the file.
THEOREM FileIsPartitioned == Spec => [](UsesFile => FacesPartition)
  BY FileIsCut, FilePartition, PTL

-----------------------------------------------------------------------------
(* The joined list *)

\* A face is in a batch once.
LEMMA OneOccurrence ==
  ASSUME FileShape, FacesPartition, NEW b \in batches, NEW f \in Faces(R, K)
  PROVE  computeFullDimAFaces(FacesOf(b))[f] =
           IF f \in FullDim /\ f \in FaceSet(b) THEN 1 ELSE 0
  <1> DEFINE g == FacesOf(b)
             n == b.length
             S == 1..n
  <1>1. DOMAIN g = S
    <2>1. CASE UsesFile
      BY <2>1, FacesInFile
    <2>2. CASE ~ UsesFile
      BY <2>2 DEF FacesOf
    <2> QED
      BY <2>1, <2>2
  <1>2. FaceSet(b) = {g[i] : i \in S}
    BY <1>1 DEF FaceSet, Range
  <1>3. Cardinality(FaceSet(b)) = n /\ FaceSet(b) \subseteq AllFaces
    BY DEF FacesPartition, Created
  <1>4. AllFaces \subseteq Faces(R, K)
    <2>1. CASE UsesFile
      BY <2>1, FileFacts DEF AllFaces
    <2>2. CASE ~ UsesFile
      BY <2>2 DEF AllFaces
    <2> QED
      BY <2>1, <2>2
  <1>5. IsFiniteSet(FaceSet(b))
    <2>1. R \in Nat
      BY AfacesAssumption
    <2>2. IsFiniteSet(1..R)
      BY <2>1, FS_Interval
    <2>3. IsFiniteSet(SUBSET (1..R))
      BY <2>2, FS_SUBSET
    <2>4. FaceSet(b) \subseteq SUBSET (1..R)
      BY <1>3, <1>4 DEF Faces
    <2> HIDE DEF g, n, S
    <2> QED
      BY <2>3, <2>4, FS_Subset
  <1>6. n \in Nat
    BY <1>3, <1>5, FS_CardinalityType
  <1> HIDE DEF g, n
  <1>7. IsFiniteSet(S) /\ Cardinality(S) = n
    BY <1>6, FS_Interval
  <1> HIDE DEF S
  <1>8. ASSUME NEW i \in S, NEW j \in S, g[i] = g[j] PROVE i = j
    <2> DEFINE h == [x \in S |-> g[x]]
    <2>1. h \in Surjection(S, FaceSet(b))
      BY <1>2 DEF Surjection
    <2> HIDE DEF h
    <2>2. h \in Injection(S, FaceSet(b))
      BY <1>3, <1>7, <2>1, FS_Surjection
    <2>3. h \in [S -> FaceSet(b)] /\ \A x, y \in S : h[x] = h[y] => x = y
      BY <2>2 DEF Injection, IsInjective
    <2>4. h[i] = g[i] /\ h[j] = g[j]
      BY DEF h
    <2> QED
      BY <1>8, <2>3, <2>4
  <1> DEFINE T == {i \in DOMAIN g : g[i] = f}
  <1>9. CASE f \in FaceSet(b)
    <2>1. PICK i \in S : g[i] = f
      BY <1>2, <1>9
    <2>2. T = {i}
      BY <1>1, <1>8, <2>1
    <2>3. Cardinality(T) = 1
      BY <2>2, FS_Singleton
    <2> QED
      BY <1>9, <2>3 DEF computeFullDimAFaces, g
  <1>10. CASE f \notin FaceSet(b)
    <2>1. T = {}
      BY <1>1, <1>2, <1>10
    <2>2. Cardinality(T) = 0
      BY <2>1, FS_EmptySet
    <2> QED
      BY <1>10, <2>2 DEF computeFullDimAFaces, g
  <1> QED
    BY <1>9, <1>10

LEMMA InitJoined == Init => JoinedOnce
  <1> SUFFICES ASSUME Init PROVE JoinedOnce
    OBVIOUS
  <1>1. Joined = {}
    BY DEF Init, Joined
  <1> QED
    BY <1>1 DEF Init, JoinedOnce

\* Joined batches stay joined, and the list stays what it is.
LEMMA JoinedStays ==
  ASSUME JoinedOnce, UNCHANGED <<representatives, out_full_dim_afaces>>,
         Joined' = Joined
  PROVE  JoinedOnce'
  <1>1. \A b : FaceSet(b)' = FaceSet(b)
    BY ResultsStay
  <1>2. \A f : (\E b \in Joined' : f \in FaceSet(b)') <=>
                 \E b \in Joined : f \in FaceSet(b)
    BY <1>1
  <1> QED
    BY <1>2 DEF JoinedOnce

LEMMA AggregateJoins ==
  ASSUME CountInv, FileShape, FacesPartition, JoinedOnce,
         NEW r \in some_full_dim_afaces, aggregate_full_dim_afaces(r)
  PROVE  JoinedOnce'
  <1> DEFINE b == r.of
             Has(f) == \E c \in Joined : f \in FaceSet(c)
  <1>1. /\ some_full_dim_afaces' = some_full_dim_afaces \ {r}
        /\ out_full_dim_afaces' =
             [f \in Faces(R, K) |-> out_full_dim_afaces[f] + r.afaces[f]]
        /\ UNCHANGED <<representatives, simplex_faces, batches>>
    BY DEF aggregate_full_dim_afaces, Join, input
  <1>2. ASSUME NEW q \in some_full_dim_afaces
        PROVE  q.of \in batches \ simplex_faces /\ q = Result(q.of)
    <2>1. PICK c \in batches \ simplex_faces : q = Result(c)
      BY DEF CountInv, BatchShape
    <2> QED
      BY <2>1 DEF Result
  <1>3. b \in batches /\ b \notin Joined
        /\ r.afaces = computeFullDimAFaces(FacesOf(b))
    BY <1>2 DEF Joined, Result
  <1> HIDE DEF b
  <1>4. Joined' = Joined \cup {b}
    <2>1. \A q \in some_full_dim_afaces : q.of = b => q = r
      BY <1>2 DEF b
    <2>2. b \in batches \ simplex_faces
      BY <1>2 DEF b
    <2>3. {q.of : q \in some_full_dim_afaces \ {r}} =
            {q.of : q \in some_full_dim_afaces} \ {b}
      BY <2>1 DEF b
    <2>4. b \in {q.of : q \in some_full_dim_afaces}
      BY DEF b
    <2> QED
      BY <1>1, <2>2, <2>3, <2>4 DEF Joined
  <1>5. ASSUME NEW f \in Faces(R, K)
        PROVE  out_full_dim_afaces'[f] =
                 IF f \in FullDim /\ (Has(f) \/ f \in FaceSet(b)) THEN 1 ELSE 0
    <2>1. out_full_dim_afaces'[f] = out_full_dim_afaces[f] + r.afaces[f]
      BY <1>1
    <2>2. r.afaces[f] = IF f \in FullDim /\ f \in FaceSet(b) THEN 1 ELSE 0
      BY <1>3, OneOccurrence
    <2>3. out_full_dim_afaces[f] = IF f \in FullDim /\ Has(f) THEN 1 ELSE 0
      BY DEF JoinedOnce
    <2>4. ~ (Has(f) /\ f \in FaceSet(b))
      <3>1. \A c \in Joined : c \in batches /\ c # b
        BY <1>3 DEF Joined
      <3> QED
        BY <1>3, <3>1 DEF FacesPartition
    <2> HIDE DEF Has
    <2> QED
      BY <2>1, <2>2, <2>3, <2>4
  <1>6. \A f : Has(f) \/ f \in FaceSet(b) <=>
                 \E c \in Joined' : f \in FaceSet(c)'
    <2>1. \A c : FaceSet(c)' = FaceSet(c)
      BY <1>1, ResultsStay
    <2> QED
      BY <1>4, <2>1
  <1>7. out_full_dim_afaces' = [f \in Faces(R, K) |-> out_full_dim_afaces'[f]]
    BY <1>1
  <1> HIDE DEF Has
  <1> QED
    BY <1>5, <1>6, <1>7 DEF JoinedOnce

LEMMA NextJoined ==
  CountInv /\ FileShape /\ FacesPartition /\ JoinedOnce /\ [Next]_vars
    => JoinedOnce'
  <1> SUFFICES ASSUME CountInv, FileShape, FacesPartition, JoinedOnce,
                      [Next]_vars
               PROVE  JoinedOnce'
    OBVIOUS
  <1>1. BatchShape
    BY DEF CountInv
  <1>2. CASE Start
    <2>1. batches = {} /\ batches' = batches
          /\ out_full_dim_afaces' = [f \in Faces(R, K) |-> 0]
      BY <1>1, <1>2 DEF BatchShape, Start
    <2>2. Joined' = {}
      BY <2>1 DEF Joined
    <2> QED
      BY <2>1, <2>2 DEF JoinedOnce
  <1>3. CASE create_simplex_faces_set
    <2>1. PICK start, length : PutOut(start, length)
      BY <1>3, BatchPutOut
    <2> DEFINE b == [id |-> Cardinality(batches), start |-> start,
                     length |-> length]
    <2>2. /\ simplex_faces' = simplex_faces \cup {b}
          /\ batches' = batches \cup {b}
      BY <2>1 DEF PutOut
    <2>3. b \notin batches
      <3>1. Cardinality(batches) \in Nat /\ b.id = Cardinality(batches)
        BY <1>1, BatchesFinite
      <3> HIDE DEF b
      <3> QED
        BY <1>1, <3>1 DEF BatchShape
    <2> HIDE DEF b
    <2>4. UNCHANGED <<representatives, some_full_dim_afaces, out_full_dim_afaces>>
      BY <1>3, BatchPutOut DEF input
    <2>5. Joined' = Joined
      BY <2>2, <2>3, <2>4 DEF Joined
    <2> QED
      BY <2>4, <2>5, JoinedStays
  <1>4. ASSUME NEW b \in simplex_faces, compute_full_dim_afaces(b)
        PROVE  JoinedOnce'
    <2>1. /\ simplex_faces' = simplex_faces \ {b}
          /\ some_full_dim_afaces' = some_full_dim_afaces \cup {Result(b)}
          /\ UNCHANGED <<representatives, out_full_dim_afaces, batches>>
      BY <1>4 DEF compute_full_dim_afaces, input
    <2>2. Result(b).of = b
      BY DEF Result
    <2>3. {r.of : r \in some_full_dim_afaces'} =
            {r.of : r \in some_full_dim_afaces} \cup {b}
      BY <2>1, <2>2
    <2>4. Joined' = Joined
      BY <2>1, <2>3 DEF Joined
    <2> QED
      BY <2>1, <2>4, JoinedStays
  <1>5. ASSUME NEW r \in some_full_dim_afaces, aggregate_full_dim_afaces(r)
        PROVE  JoinedOnce'
    BY <1>5, AggregateJoins
  <1>6. CASE clean \/ UNCHANGED vars
    <2>1. UNCHANGED <<representatives, out_full_dim_afaces, batches,
                      simplex_faces, some_full_dim_afaces>>
      BY <1>6 DEF clean, vars, input
    <2>2. Joined' = Joined
      BY <2>1 DEF Joined
    <2> QED
      BY <2>1, <2>2, JoinedStays
  <1> QED
    BY <1>2, <1>3, <1>4, <1>5, <1>6 DEF Next, Finished

LEMMA CompleteAtTheEnd == CountInv /\ FacesPartition /\ JoinedOnce => Complete
  <1> SUFFICES ASSUME CountInv, FacesPartition, JoinedOnce,
                      control = "finished", NEW f \in Faces(R, K)
               PROVE  out_full_dim_afaces[f] =
                        IF f \in AllFaces \cap FullDim THEN 1 ELSE 0
    BY DEF Complete
  <1>1. simplex_faces = {} /\ some_full_dim_afaces = {}
        /\ all_simplex_faces_created
    BY DEF CountInv, BatchShape
  <1>2. Joined = batches
    BY <1>1 DEF Joined
  <1>3. Created = AllFaces
    BY <1>1 DEF FacesPartition
  <1>4. (\E b \in Joined : f \in FaceSet(b)) <=> f \in AllFaces
    BY <1>2, <1>3 DEF Created
  <1> QED
    BY <1>4 DEF JoinedOnce

\* Whenever the batches partition the faces, as TLC checks of the iterator,
\* the list in the end has every a-face of full dimension, each once: no result
\* is lost, joined twice or left behind by clean.
THEOREM AfacesComplete == Spec /\ []FacesPartition => []Complete
  BY AfacesInvariant, FileIsCut, InitJoined, NextJoined, CompleteAtTheEnd, PTL
     DEF Spec

LEMMA NextKeepsFile == [Next]_vars /\ UsesFile => UsesFile'
  BY DEF UsesFile, Next, Start, create_simplex_faces_set,
         compute_full_dim_afaces, aggregate_full_dim_afaces, Join, clean,
         Finished, vars, input

\* With a file of representatives the list in the end has every a-face of full
\* dimension among them, each once.
THEOREM FileComplete == Spec /\ UsesFile => []Complete
  <1>1. Spec /\ UsesFile => []UsesFile
    BY NextKeepsFile, PTL DEF Spec
  <1> QED
    BY <1>1, FileIsPartitioned, AfacesComplete, PTL
=============================================================================
