--------------------------- MODULE FullDimAfaces ---------------------------
(***************************************************************************)
(* The Petri net workflow/full_dim_afaces.xpnet: the simplex faces are cut *)
(* into batches, one batch after the other, workers filter the batches in  *)
(* parallel, and the faces that remain are joined.  The faces are those of *)
(* an iterator (createSimplexFaces()) or the lines of a file               *)
(* (createSimplexFacesFromFile()); a batch is told to a worker by its      *)
(* first face, or by its position in the file, and its length.             *)
(*                                                                         *)
(* The functions that run on workers touch nothing but their tokens and a  *)
(* file nobody writes, so that each is one step.  The order of the list    *)
(* depends on that of the workers; here it is how often each face occurs.  *)
(* Positions in the file are counted in lines.                             *)
(***************************************************************************)
EXTENDS Integers, FiniteSetsExt, Functions, SimplexFaceIterator

CONSTANTS
  R, K,       \* data.r and data.k: faces of 1..R with K elements at least
  Files,      \* files of simplex orbit representatives that may be given
  NoFile,     \* none is given
  JobSizes,   \* values of config.job_size
  FullDim     \* the faces that computeFullDimAFaces() keeps

\* A file has its faces line by line, each once; does its last line end in a
\* newline?  Q has at least one row, and as many columns at least.
ASSUME AfacesAssumption ==
  /\ R \in Nat /\ K \in 1..R
  /\ \A file \in Files :
       /\ file.newline \in BOOLEAN
       /\ file.lines \in Seq(Seq(Nat))
       /\ \A i \in DOMAIN file.lines : Elements(file.lines[i]) \in Faces(R, K)
       /\ \A i, j \in DOMAIN file.lines :
            Elements(file.lines[i]) = Elements(file.lines[j]) => i = j
  /\ JobSizes \in SUBSET (Nat \ {0})
  /\ FullDim \in SUBSET Faces(R, K)

VARIABLES
  representatives,    \* data.simplex_orbit_representatives
  job_size,           \* config.job_size
  control,            \* "enabled", "running" or "finished"
  all_simplex_faces_created,
  number_of_unhandled_simplex_faces_sets,
  last_simplex_faces,
  simplex_faces,          \* the batches no worker has taken
  some_full_dim_afaces,   \* what is left of those that are done
  out_full_dim_afaces,
  batches                 \* history: all batches, numbered

input == <<representatives, job_size>>
vars == <<input, control, all_simplex_faces_created,
          number_of_unhandled_simplex_faces_sets, last_simplex_faces,
          simplex_faces, some_full_dim_afaces, out_full_dim_afaces, batches>>

UsesFile == representatives # NoFile

ListRange == [start : Seq(Int), length : Nat]
Batch == [id : Nat, start : Seq(Int), length : Nat]

TypeOK ==
  /\ representatives \in Files \cup {NoFile}
  /\ job_size \in JobSizes
  /\ control \in {"enabled", "running", "finished"}
  /\ all_simplex_faces_created \in BOOLEAN
  /\ number_of_unhandled_simplex_faces_sets \in Nat
  /\ last_simplex_faces \in ListRange
  /\ simplex_faces \in SUBSET Batch
  /\ some_full_dim_afaces \in SUBSET [of : Batch, afaces : [Faces(R, K) -> Nat]]
  /\ out_full_dim_afaces \in [Faces(R, K) -> Nat]
  /\ batches \in SUBSET Batch

Init ==
  /\ representatives \in Files \cup {NoFile}
  /\ job_size \in JobSizes
  /\ control = "enabled"
  /\ all_simplex_faces_created = FALSE
  /\ number_of_unhandled_simplex_faces_sets = 0
  /\ last_simplex_faces = [start |-> <<>>, length |-> 0]
  /\ simplex_faces = {}
  /\ some_full_dim_afaces = {}
  /\ out_full_dim_afaces = [f \in Faces(R, K) |-> 0]
  /\ batches = {}

\* Transition init.
Start ==
  /\ control = "enabled"
  /\ control' = "running"
  /\ all_simplex_faces_created' = FALSE
  /\ number_of_unhandled_simplex_faces_sets' = 0
  /\ last_simplex_faces' = [start |-> <<>>, length |-> 0]
  /\ out_full_dim_afaces' = [f \in Faces(R, K) |-> 0]
  /\ UNCHANGED <<input, simplex_faces, some_full_dim_afaces, batches>>

-----------------------------------------------------------------------------
(* Transition create_simplex_faces_set *)

\* A batch is put out, and remembered as the last one.
PutOut(start, length) ==
  LET batch == [id |-> Cardinality(batches), start |-> start, length |-> length]
  IN  /\ simplex_faces' = simplex_faces \cup {batch}
      /\ batches' = batches \cup {batch}
      /\ last_simplex_faces' = [start |-> start, length |-> length]

\* Fault: a batch starts with the last face of the one before.
FirstFaceAgain(last) ==
  IF last.start = <<>> THEN Iterator(R, Iota(K))
  ELSE increment(Iterator(R, last.start), last.length - 1).it

\* Where a batch starts.
FirstFace(last) ==
  IF last.start = <<>> THEN Iterator(R, Iota(K))
  ELSE increment(Iterator(R, last.start), last.length).it

\* createSimplexFaces().  To dereference the iterator at its end throws: the
\* net would stop for good.
createSimplexFaces ==
  LET iter == FirstFace(last_simplex_faces)
      next == increment(iter, job_size)
  IN  /\ ~ isEnd(iter)
      /\ PutOut(iter.cur, next.steps)
      /\ all_simplex_faces_created' = isEnd(next.it)

\* Fault: the end is not noticed.
EndOfFileMissed(left) == FALSE

\* Do the calls of getline() run into the end of the file?
EndOfFile(left) ==
  \/ job_size > left
  \/ job_size = left /\ ~ representatives.newline

\* createSimplexFacesFromFile().  At the end of the file tellg() is -1.
createSimplexFacesFromFile ==
  LET last == last_simplex_faces
      pos == IF last.start = <<>> THEN 0 ELSE last.start[2]
      left == Len(representatives.lines) - pos
      readLines == IF job_size <= left THEN job_size ELSE left
      tellg == IF EndOfFile(left) THEN -1 ELSE pos + readLines
  IN  /\ PutOut(<<pos, tellg>>, readLines)
      /\ all_simplex_faces_created' = EndOfFile(left)

create_simplex_faces_set ==
  /\ control = "running"
  /\ ~ all_simplex_faces_created
  /\ IF UsesFile THEN createSimplexFacesFromFile ELSE createSimplexFaces
  /\ number_of_unhandled_simplex_faces_sets' =
       number_of_unhandled_simplex_faces_sets + 1
  /\ UNCHANGED <<input, control, some_full_dim_afaces, out_full_dim_afaces>>

-----------------------------------------------------------------------------
\* At most linesToRead lines from position pos on, up to the end of the file.
loadListPartially(pos, linesToRead) ==
  LET lines == representatives.lines
  IN  SubSeq(lines, pos + 1,
             IF pos + linesToRead <= Len(lines) THEN pos + linesToRead
             ELSE Len(lines))

\* The faces of a batch, as computeFullDimAFacesFromRange() finds them by
\* incrementing the iterator, or computeFullDimAFacesFromFile() in the file.
FacesOf(b) ==
  LET passed[i \in 0..b.length] ==
        IF i = 0 THEN Iterator(R, b.start) ELSE increment(passed[i - 1], 1).it
      lines == loadListPartially(b.start[1], b.length)
  IN  IF UsesFile THEN [i \in 1..Len(lines) |-> Elements(lines[i])]
      ELSE [i \in 1..b.length |-> Elements(passed[i - 1].cur)]

\* How often each face is in the list that computeFullDimAFaces() returns.
computeFullDimAFaces(faces) ==
  [f \in Faces(R, K) |->
     IF f \in FullDim THEN Cardinality({i \in DOMAIN faces : faces[i] = f}) ELSE 0]

\* What comes of a batch.
Result(b) == [of |-> b, afaces |-> computeFullDimAFaces(FacesOf(b))]

compute_full_dim_afaces(b) ==
  /\ b \in simplex_faces
  /\ simplex_faces' = simplex_faces \ {b}
  /\ some_full_dim_afaces' = some_full_dim_afaces \cup {Result(b)}
  /\ UNCHANGED <<input, control, all_simplex_faces_created,
                 number_of_unhandled_simplex_faces_sets, last_simplex_faces,
                 out_full_dim_afaces, batches>>

\* Joins the faces to the list.
Join(r) ==
  /\ r \in some_full_dim_afaces
  /\ some_full_dim_afaces' = some_full_dim_afaces \ {r}
  /\ out_full_dim_afaces' =
       [f \in Faces(R, K) |-> out_full_dim_afaces[f] + r.afaces[f]]
  /\ UNCHANGED <<input, control, all_simplex_faces_created, last_simplex_faces,
                 simplex_faces, batches>>

\* Fault: the counter is not decremented.
aggregateUncounted(r) ==
  /\ Join(r)
  /\ UNCHANGED number_of_unhandled_simplex_faces_sets

aggregate_full_dim_afaces(r) ==
  /\ Join(r)
  /\ number_of_unhandled_simplex_faces_sets' =
       number_of_unhandled_simplex_faces_sets - 1

\* Fault: the net ends when no batch is on its way.
cleanEarly ==
  /\ control = "running"
  /\ number_of_unhandled_simplex_faces_sets = 0
  /\ control' = "finished"
  /\ UNCHANGED <<input, all_simplex_faces_created,
                 number_of_unhandled_simplex_faces_sets, last_simplex_faces,
                 simplex_faces, some_full_dim_afaces, out_full_dim_afaces,
                 batches>>

clean ==
  /\ control = "running"
  /\ all_simplex_faces_created
  /\ number_of_unhandled_simplex_faces_sets = 0
  /\ control' = "finished"
  /\ UNCHANGED <<input, all_simplex_faces_created,
                 number_of_unhandled_simplex_faces_sets, last_simplex_faces,
                 simplex_faces, some_full_dim_afaces, out_full_dim_afaces,
                 batches>>

\* The net has finished; nothing is left to fire.
Finished == control = "finished" /\ UNCHANGED vars

Next ==
  \/ Start
  \/ create_simplex_faces_set
  \/ \E b \in simplex_faces : compute_full_dim_afaces(b)
  \/ \E r \in some_full_dim_afaces : aggregate_full_dim_afaces(r)
  \/ clean
  \/ Finished

Spec == Init /\ [][Next]_vars

-----------------------------------------------------------------------------
(* Properties *)

\* The faces there are.
AllFaces ==
  IF UsesFile
  THEN {Elements(representatives.lines[i]) : i \in DOMAIN representatives.lines}
  ELSE Faces(R, K)

FaceSet(b) == Range(FacesOf(b))
Created == UNION {FaceSet(b) : b \in batches}

\* The batches share no face, have as many faces as their length says, and
\* together have every face when the last one is created; the iterator is not
\* asked for another batch after its end.
FacesPartition ==
  /\ \A b \in batches : Cardinality(FaceSet(b)) = b.length
  /\ \A b, c \in batches : b # c => FaceSet(b) \cap FaceSet(c) = {}
  /\ Created \subseteq AllFaces
  /\ all_simplex_faces_created => Created = AllFaces
  /\ ~ UsesFile /\ Created = AllFaces => all_simplex_faces_created

\* The counter of the net counts the batches on their way.
BatchesCounted ==
  control = "running" =>
    number_of_unhandled_simplex_faces_sets =
      Cardinality(simplex_faces) + Cardinality(some_full_dim_afaces)

\* The list in the end has every face that is an a-face of full dimension,
\* each once.
Complete ==
  control = "finished" =>
    \A f \in Faces(R, K) :
      out_full_dim_afaces[f] = IF f \in AllFaces \cap FullDim THEN 1 ELSE 0

\* What is left to do, in steps.
Remaining ==
  4 * (Cardinality(AllFaces) - MapThenSumSet(LAMBDA b : b.length, batches)
       + (IF all_simplex_faces_created THEN 0 ELSE 1))
  + 2 * Cardinality(simplex_faces) + Cardinality(some_full_dim_afaces)
  + [enabled |-> 2, running |-> 1, finished |-> 0][control]

\* Every step brings the net closer to its end: it does not go on creating
\* batches for ever, be it from the iterator or at the end of the file.
Progress == [][Remaining' < Remaining]_vars

-----------------------------------------------------------------------------
(* The inductive invariant *)

\* A batch is on its way until its result is joined, in one place at a time;
\* numbers tell batches apart.
BatchShape ==
  /\ IsFiniteSet(batches)
  /\ \A b \in batches : b.id \in Nat /\ b.id < Cardinality(batches)
  /\ simplex_faces \subseteq batches
  /\ some_full_dim_afaces \subseteq {Result(b) : b \in batches \ simplex_faces}
  /\ control = "enabled" =>
       /\ batches = {} /\ ~ all_simplex_faces_created
       /\ last_simplex_faces.start = <<>>
       /\ out_full_dim_afaces = [f \in Faces(R, K) |-> 0]
  /\ control = "finished" =>
       /\ simplex_faces = {} /\ some_full_dim_afaces = {}
       /\ all_simplex_faces_created
  /\ control \in {"enabled", "running", "finished"}

CountInv == BatchShape /\ BatchesCounted

\* The lines of the file that a batch stands for, and how far the file is read.
LinesOf(b) == b.start[1] + 1 .. b.start[1] + b.length
Position ==
  IF last_simplex_faces.start = <<>> THEN 0
  ELSE IF all_simplex_faces_created THEN Len(representatives.lines)
  ELSE last_simplex_faces.start[2]

\* The batches cut the part of the file that is read without gap and overlap.
FileShape ==
  UsesFile =>
    /\ representatives \in Files /\ job_size \in JobSizes
    /\ last_simplex_faces.start = <<>> =>
         batches = {} /\ ~ all_simplex_faces_created
    /\ Position \in 0..Len(representatives.lines)
    /\ \A b \in batches : b.start[1] \in Nat /\ b.length \in Nat
    /\ \A b, c \in batches : b # c => LinesOf(b) \cap LinesOf(c) = {}
    /\ UNION {LinesOf(b) : b \in batches} = 1..Position

\* The joined list has the faces of the batches whose results are joined.
Joined == batches \ (simplex_faces \cup {r.of : r \in some_full_dim_afaces})
JoinedOnce ==
  out_full_dim_afaces =
    [f \in Faces(R, K) |->
       IF f \in FullDim /\ \E b \in Joined : f \in FaceSet(b) THEN 1 ELSE 0]
=============================================================================
