--------------------------- MODULE GitFanWorkflow ---------------------------
(***************************************************************************)
(* The whole computation: main() of bin/gitfan.cpp gives the input to the  *)
(* Petri net workflow/gitfan.xpnet, whose transitions are the nets that    *)
(* the other modules model.  The a-faces are those FullDimAfaces finds;    *)
(* the orbit cones are computed by the actions of OrbitCones; the          *)
(* traversal takes the steps of GitFan, which TraverseGitfan implements.   *)
(*                                                                         *)
(* What is added here is what the parts share: the worker processes, each  *)
(* with a Singular session that caches what a task has loaded from files,  *)
(* the files, and the two control paths after the orbit cones.  A worker   *)
(* runs one task after the other.  Whatever task throws ends the workflow, *)
(* and main() then returns -1.                                             *)
(***************************************************************************)
EXTENDS OrbitCones, SingularSession

CONSTANTS
  Worker,
  GitCone, InitialCones, Neighbours,   \* the fan of the orbit cones
  Missing,                             \* a file that is not there
  CutOff,                              \* a line that was cut off
  MaxTruncated        \* bound: how many results may be incomplete without notice

\* Problem has what the command line gives, besides what OrbitCones uses of
\* it.  Without a symmetry group the trivial one acts on the columns of Q; a
\* precomputed group permutes the precomputed cones.
ASSUME WorkflowAssumption ==
  \A problem \in Problem :
    /\ problem.symmetry_group \in BOOLEAN
    /\ ~ problem.symmetry_group =>
         problem.group = trivialGroupAction(Len(problem.group[1]))
    /\ problem.moving_cone_exists \in BOOLEAN
    /\ problem.simplex_orbit_representatives \in BOOLEAN
    /\ problem.precomputed_orbit_cones \in Seq(Cone) \cup {Missing}
    /\ \/ problem.precomputed_symmetry_group_on_hashes = Missing
       \/ /\ IsGroupAction(problem.precomputed_symmetry_group_on_hashes)
          /\ problem.precomputed_symmetry_group_on_hashes # <<>>
          /\ problem.precomputed_orbit_cones # Missing =>
               \A p \in Range(problem.precomputed_symmetry_group_on_hashes) :
                 DOMAIN p = DOMAIN problem.precomputed_orbit_cones

\* What gitfan.cpp passes on.  The dimension r is not known yet; Q and the
\* ideal have one value.
InputData(problem) ==
  [group |-> problem.group, symmetry_group |-> problem.symmetry_group,
   afaces |-> problem.afaces,
   moving_cone |-> problem.moving_cone,
   moving_cone_exists |-> problem.moving_cone_exists,
   simplex_orbit_representatives |-> problem.simplex_orbit_representatives,
   precomputed_orbit_cones |-> problem.precomputed_orbit_cones,
   precomputed_symmetry_group_on_hashes |->
     problem.precomputed_symmetry_group_on_hashes,
   r |-> 0, Q |-> "torus action", ideal |-> "ideal"]

\* No content of a file is Missing.
ASSUME MissingAssumption ==
  /\ Missing \notin Cone
  /\ Missing # "given"
  /\ Missing # movingCone("torus action")
  /\ Missing # coneViaPoints("torus action")

VARIABLES
  input_data,         \* has preprocess_input put its token on input_data?
  session,            \* the Singular session of each worker
  moving_cone_file,
  found, reported,    \* the cones in the storage, and their reported number
  traverse, order, output,   \* where the control paths are
  order_file, git_cones_file, load_file,   \* the results
  truncated,          \* history: the results whose writing failed unnoticed
  outcome             \* of main()

orbitVars == vars
fanVars == <<found, reported>>
pathVars == <<traverse, order, output>>
resultVars == <<order_file, git_cones_file, load_file, truncated>>
workflowVars == <<orbitVars, input_data, session, moving_cone_file, fanVars,
                  pathVars, resultVars, outcome>>

Fan == INSTANCE GitFan WITH Cone <- GitCone

\* The fan is connected: it has no part that contains the initial cones and
\* all neighbours of its cones.
ASSUME FanAssumption ==
  /\ InitialCones \subseteq GitCone
  /\ \A S \in SUBSET GitCone : Fan!Frontier(S) \subseteq S => S = GitCone

\* The content of a file with a cone, and of all files of a list.
FileContent(p) == IF p \in DOMAIN cone_files THEN cone_files[p] ELSE Missing
Contents(l) == [i \in DOMAIN l |-> FileContent(l[i])]

\* The option moving-cone takes a file that is not empty, or a path where
\* nothing is yet.
MovingConeGiven == in_data.moving_cone /\ in_data.moving_cone_exists

WorkflowInit ==
  /\ in_data \in {InputData(problem) : problem \in Problem}
  /\ input_data = FALSE
  /\ control = "start"
  /\ enable_clean = FALSE
  /\ inout_processed_list = <<>>
  /\ cone_files = <<>>
  /\ action_files = <<>>
  /\ symmetry_group_on_hashes = <<>>
  /\ session = [w \in Worker |-> NoSymbols]
  /\ moving_cone_file = IF MovingConeGiven THEN "given" ELSE Missing
  /\ found = {} /\ reported = {}
  /\ traverse = "off" /\ order = "off" /\ output = "off"
  /\ order_file = Missing /\ git_cones_file = Missing /\ load_file = Missing
  /\ truncated = {}
  /\ outcome = "running"

-----------------------------------------------------------------------------
(* Before the orbit cones *)

\* preprocessProblemData(): the dimensions, a moving cone that is asked for
\* and not there, and representatives of the orbits of simplex faces.
preprocess_input(w) ==
  LET data == [in_data EXCEPT !.r = Len(in_data.group[1])]
      s == readAndSetDimensionParameters(session[w], data)
      computes == data.moving_cone /\ moving_cone_file = Missing
      t == IF computes THEN computeMovingCone(s, data) ELSE s
      finds == data.symmetry_group /\ ~ data.simplex_orbit_representatives
  IN  /\ ~ input_data
      /\ input_data' = TRUE
      /\ in_data' =
           [data EXCEPT !.simplex_orbit_representatives = @ \/ finds]
      /\ moving_cone_file' =
           IF computes THEN movingCone(data.Q) ELSE moving_cone_file
      /\ session' = [session EXCEPT ![w] =
                       IF finds THEN findOrbitRepresentatives(t, data) ELSE t]
      /\ UNCHANGED <<control, enable_clean, inout_processed_list, cone_files,
                     action_files, symmetry_group_on_hashes, fanVars, pathVars,
                     resultVars, outcome>>

Precomputed == in_data.precomputed_orbit_cones
PrecomputedPath(i) ==
  [directory |-> "orbit_cones", aface |-> <<>>, name |-> <<0, i>>]

\* The cones are copied, and so is the group that permutes them; if none is
\* given it is trivial.
processPrecomputedData(w) ==
  LET given == in_data.precomputed_symmetry_group_on_hashes
  IN  /\ input_data /\ Precomputed # Missing
      /\ Move("start", "finished")
      /\ inout_processed_list' = [i \in DOMAIN Precomputed |-> PrecomputedPath(i)]
      /\ cone_files' = [p \in {PrecomputedPath(i) : i \in DOMAIN Precomputed} |->
                          Precomputed[p.name[2]]]
      /\ symmetry_group_on_hashes' =
           IF given # Missing THEN given
           ELSE trivialGroupAction(Len(Precomputed))
      /\ session' = [session EXCEPT ![w] =
                       IF given # Missing THEN @
                       ELSE writeTrivialGroupActionToSSIFile(@)]
      /\ UNCHANGED <<in_data, input_data, enable_clean, action_files,
                     moving_cone_file, fanVars, pathVars, resultVars, outcome>>

check_precomputed_orbit_cones ==
  /\ input_data /\ Precomputed = Missing
  /\ Move("start", "full_dim_afaces_start")
  /\ UNCHANGED <<in_data, input_data, enable_clean, inout_processed_list,
                 cone_files, action_files, symmetry_group_on_hashes, session,
                 moving_cone_file, fanVars, pathVars, resultVars, outcome>>

\* Some workers run the tasks of a step, after[w] being the session of a worker
\* w that does; nobody does if there are no tasks.
TakePart(tasks, after) ==
  /\ \E ws \in SUBSET Worker :
       /\ (ws = {}) = (tasks = <<>>)
       /\ session' = [w \in Worker |->
                        IF w \in ws THEN after[w] ELSE session[w]]
  /\ UNCHANGED <<input_data, moving_cone_file, fanVars, pathVars, resultVars,
                 outcome>>

full_dim_afaces ==
  /\ Move("full_dim_afaces_start", "enabled")
  /\ inout_processed_list' = in_data.afaces
  /\ TakePart(<<"batch">>,
              [w \in Worker |-> computeFullDimAFaces(session[w], in_data)])
  /\ UNCHANGED <<in_data, enable_clean, cone_files, action_files,
                 symmetry_group_on_hashes>>

-----------------------------------------------------------------------------
(* The net orbit_cones_from_afaces *)

NoTask == TakePart(<<>>, session)

orbit_cones_from_afaces ==
  \/ Start /\ NoTask
  \/ /\ compute_orbit_cones
     /\ TakePart(list, [w \in Worker |->
                       computeOrbitConeAndWriteSSIFile(session[w], in_data)])
  \/ /\ intersect_with_moving_cone
     /\ TakePart(IF in_data.moving_cone THEN list ELSE <<>>,
                 [w \in Worker |-> intersectWithMovingConeAndOverwriteSSIFiles(
                                     session[w], in_data, moving_cone_file)])
  \/ /\ expand_orbit_cone_orbits
     /\ TakePart(list, [w \in Worker |-> ExpandOrbit(session[w], in_data)])
  \/ keep_unique_orbit_cones /\ NoTask
  \/ /\ removeOrbitStructure
     /\ TakePart(<<"flatten">>,
                 [w \in Worker |->
                    writeGroupActionToSSIFile(readGroupAction(session[w]))])
  \/ split_control_path /\ NoTask
  \/ clean /\ NoTask

-----------------------------------------------------------------------------
(* The two control paths *)

\* Fault: one of the paths is not taken.
SplitPathOnce ==
  /\ control = "finished" /\ traverse = "off"
  /\ traverse' = "start"
  /\ UNCHANGED <<orbitVars, input_data, session, moving_cone_file, fanVars,
                 order, output, resultVars, outcome>>

\* The control path splits when the orbit cones are available.
SplitPath ==
  /\ control = "finished" /\ traverse = "off"
  /\ traverse' = "start" /\ order' = "start"
  /\ UNCHANGED <<orbitVars, input_data, session, moving_cone_file, fanVars,
                 output, resultVars, outcome>>

BeginOrder ==
  /\ order = "start"
  /\ order' = "writing"
  /\ UNCHANGED <<orbitVars, input_data, session, moving_cone_file, fanVars,
                 traverse, output, resultVars, outcome>>

\* The task that writes a result ends.  Nobody asks the output stream whether
\* the file has come to the disk whole.
Written(name, whole) ==
  /\ truncated' = IF whole THEN truncated ELSE truncated \cup {name}
  /\ Cardinality(truncated') <= MaxTruncated

FileName(p) == p.name

\* Fault: the cones are listed in another order.
OrderBackwards(l) == [i \in DOMAIN l |-> FileName(l[Len(l) + 1 - i])]

\* The file names of the cones, line by line.
outputOrbitConesOrder(l) == [i \in DOMAIN l |-> FileName(l[i])]

\* What there may be of a file with these lines: the first n of them, the last
\* one whole or not.
Beginnings(lines) ==
  {[i \in 1..n |-> IF i = n /\ half THEN CutOff ELSE lines[i]] :
     n \in 0..Len(lines), half \in BOOLEAN}

EndOrder ==
  /\ order = "writing"
  /\ order' = "end"
  /\ order_file' \in Beginnings(outputOrbitConesOrder(list))
  /\ Written("order", order_file' = outputOrbitConesOrder(list))
  /\ UNCHANGED <<orbitVars, input_data, session, moving_cone_file, fanVars,
                 traverse, output, git_cones_file, load_file, outcome>>

\* A task of the traversal on one worker.
Traverses(w, s) ==
  /\ session' = [session EXCEPT ![w] = s]
  /\ UNCHANGED <<orbitVars, input_data, moving_cone_file, order, output,
                 resultVars, outcome>>

\* There is no initial cone if there is no orbit cone.
compute_initial_cone(w) ==
  /\ traverse = "start"
  /\ traverse' = "running"
  /\ IF list = <<>>
     THEN /\ Traverses(w, session[w])
          /\ UNCHANGED fanVars
     ELSE /\ Traverses(w, computeInitialCone(session[w], in_data,
                            moving_cone_file, Contents(list),
                            symmetry_group_on_hashes))
          /\ \E c \in InitialCones : Fan!Find(c)

\* A job finds new cones, or only cones that are known.
expand_cones(w) ==
  /\ traverse = "running"
  /\ list # <<>>
  /\ Traverses(w, computeNeighbourHashes(session[w], in_data, moving_cone_file,
                    Contents(list), symmetry_group_on_hashes))
  /\ \/ \E c \in GitCone : Fan!Find(c)
     \/ UNCHANGED fanVars
  /\ UNCHANGED traverse

EndTraversal ==
  /\ traverse = "running"
  /\ traverse' = "end"
  /\ IF list = <<>> THEN reported' = {0} /\ UNCHANGED found ELSE Fan!Report
  /\ UNCHANGED <<orbitVars, input_data, session, moving_cone_file, order,
                 output, resultVars, outcome>>

\* output_git_cones is one task: the cones are saved, and then the file is
\* written that loads them.

\* What a storage may have saved of the cones, in any order, when it says that
\* it has saved them.
Saved(cones) ==
  (SUBSET cones) \cup {S \cup {CutOff} : S \in (SUBSET cones) \ {cones}}

outputGitCones ==
  /\ traverse = "end" /\ output = "off"
  /\ output' = "saved"
  /\ git_cones_file' \in Saved(found)
  /\ Written("git_cones", git_cones_file' = found)
  /\ UNCHANGED <<orbitVars, input_data, session, moving_cone_file, fanVars,
                 traverse, order, order_file, load_file, outcome>>

\* The file that loads the cones: the paths of the orbit cones l, the hashes of
\* the given cones, and the commands that make cones of these.
LoadFile(l, cones, commands) ==
  [orbit_cones |-> l, git_cones |-> cones, commands |-> commands]

\* What there may be of it before its commands.
PartsOfLoadFile(l, cones) ==
  {LoadFile(SubSeq(l, 1, n), {}, FALSE) : n \in 0..Len(l)}
    \cup {LoadFile(l, S, FALSE) : S \in SUBSET cones}

LoadFiles(l, cones) ==
  PartsOfLoadFile(l, cones) \cup {LoadFile(l, cones, TRUE)}

\* The file is created, and the orbit cones are listed.
outputLoadGitConesSingularFile ==
  /\ output = "saved"
  /\ output' = "loading"
  /\ load_file' \in PartsOfLoadFile(list, {})
  /\ UNCHANGED <<orbitVars, input_data, session, moving_cone_file, fanVars,
                 traverse, order, order_file, git_cones_file, truncated,
                 outcome>>

\* The saved cones are read, and the rest is written.
EndLoadFile ==
  /\ output = "loading"
  /\ output' = "end"
  /\ load_file' \in LoadFiles(list, git_cones_file)
  /\ Written("load_file", load_file'.commands)
  /\ UNCHANGED <<orbitVars, input_data, session, moving_cone_file, fanVars,
                 traverse, order, order_file, git_cones_file, outcome>>

\* The paths join.  The workflow ends, and main() returns, when the removal of
\* intermediate files has ended too.
JoinPaths ==
  /\ output = "end" /\ order = "end" /\ ~ enable_clean
  /\ outcome' = "returned"
  /\ UNCHANGED <<orbitVars, input_data, session, moving_cone_file, fanVars,
                 pathVars, resultVars>>

\* Transitions that are module calls, rather than expressions of the net.
TaskRuns ==
  \/ ~ input_data
  \/ control = "start" /\ Precomputed # Missing
  \/ control \in {"full_dim_afaces_start", "aface_reps_available",
                  "orbit_cone_reps_available",
                  "intersected_orbit_cone_reps_available",
                  "orbit_cone_orbits_available",
                  "unique_orbit_cone_orbits_available"}
  \/ enable_clean
  \/ order = "writing"
  \/ traverse \in {"start", "running"}
  \/ traverse = "end" /\ output # "end"

\* A task throws: put_and_run() throws, and main() prints the exception.  A
\* result that a task is writing stays as far as it got.
Throw ==
  /\ TaskRuns
  /\ outcome' = "threw"
  /\ \/ order_file' = order_file
     \/ /\ order = "writing"
        /\ order_file' \in Beginnings(outputOrbitConesOrder(list))
  /\ \/ git_cones_file' = git_cones_file
     \/ /\ traverse = "end" /\ output = "off"
        /\ git_cones_file' \in Saved(found)
  /\ \/ load_file' = load_file
     \/ /\ output = "saved"
        /\ load_file' \in PartsOfLoadFile(list, {})
     \/ /\ output = "loading"
        /\ load_file' \in PartsOfLoadFile(list, git_cones_file)
  /\ UNCHANGED <<orbitVars, input_data, session, moving_cone_file, fanVars,
                 pathVars, truncated>>

-----------------------------------------------------------------------------
Step ==
  \/ Throw
  \/ \E w \in Worker : \/ preprocess_input(w) \/ processPrecomputedData(w)
                       \/ compute_initial_cone(w) \/ expand_cones(w)
  \/ check_precomputed_orbit_cones
  \/ full_dim_afaces
  \/ orbit_cones_from_afaces
  \/ SplitPath
  \/ BeginOrder
  \/ EndOrder
  \/ EndTraversal
  \/ outputGitCones
  \/ outputLoadGitConesSingularFile
  \/ EndLoadFile
  \/ JoinPaths

Ended == outcome # "running"

WorkflowNext ==
  \/ ~ Ended /\ Step
  \/ Ended /\ UNCHANGED workflowVars

\* The engine fires a transition that is enabled, and a task that has begun
\* returns or throws.
WorkflowSpec ==
  /\ WorkflowInit /\ [][WorkflowNext]_workflowVars
  /\ WF_workflowVars(~ Ended /\ Step)

-----------------------------------------------------------------------------
(* Properties *)

\* What s has is the same in t.
Agrees(s, t) == \A x \in DOMAIN s : x \in DOMAIN t /\ s[x] = t[x]

\* What a session that loads a global symbol now gets.
Current(name) ==
  CASE name = IDEAL -> in_data.ideal
    [] name = TORUS_ACTION -> in_data.Q
    [] name = MOVING_CONE -> IF in_data.moving_cone THEN moving_cone_file
                             ELSE coneViaPoints(in_data.Q)
    [] name = SYMMETRY_GROUP -> group
    [] name = SYMMETRY_GROUP_ON_CONES -> groupActionOnQImage(group, in_data.Q)
    [] name = SYMMETRY_GROUP_ON_HASHES -> symmetry_group_on_hashes
    [] name = ORBIT_CONES -> Contents(list)

\* Are the files there that make the value of a symbol?
IsThere(name, value) ==
  CASE name = MOVING_CONE -> value # Missing
    [] name = SYMMETRY_GROUP_ON_HASHES -> value # <<>>
    [] name = ORBIT_CONES -> Missing \notin Range(value)
    [] OTHER -> TRUE

\* A symbol that a worker has loaded once stays what its file says: no file is
\* written after any worker has read it, none is read before it is there, and
\* no task leaves scratch symbols to the next one on its worker.
SymbolsCurrent ==
  \A w \in Worker : \A name \in DOMAIN session[w] :
    /\ name \in Globals
    /\ session[w][name] = Current(name)
    /\ IsThere(name, session[w][name])

\* The file that loads the cones, in whatever state a task that throws or a
\* write error that nobody notices leaves it: all orbit cones it names are
\* there, none of them an intermediate file; it has a git cone or commands only
\* if it has all orbit cones, those that the group permutes; and a file with its
\* commands has every cone of the fan, unless saving them failed unnoticed.
LoadFileUsable ==
  load_file # Missing =>
    /\ \A i \in DOMAIN load_file.orbit_cones :
         /\ load_file.orbit_cones[i].directory = "orbit_cones"
         /\ load_file.orbit_cones[i] \in DOMAIN cone_files
    /\ load_file.git_cones # {} \/ load_file.commands =>
         \/ load_file.orbit_cones = <<>>
         \/ \A p \in DOMAIN symmetry_group_on_hashes :
              DOMAIN symmetry_group_on_hashes[p] = DOMAIN load_file.orbit_cones
    /\ load_file.commands /\ "git_cones" \notin truncated =>
         reported = {Cardinality(load_file.git_cones)}

\* When main() returns, the order of the orbit cones in the file that lists
\* them and in the file that loads them is the order in which every worker had
\* them while it computed hashes, so that the numbers in a hash mean the same
\* everywhere; the list can be given to another run as precomputed cones.
\* Write errors that nobody notices leave a beginning of this order; without
\* them the files have all orbit cones, and every cone of the fan.
ResultsAgree ==
  outcome = "returned" =>
    LET listed == [i \in DOMAIN order_file |->
                     FileContent([directory |-> "orbit_cones", aface |-> <<>>,
                                  name |-> order_file[i]])]
        whole == [i \in {j \in DOMAIN order_file : order_file[j] # CutOff} |->
                    listed[i]]
        loaded == Contents(load_file.orbit_cones)
    IN  /\ \A w \in Worker :
             ORBIT_CONES \in DOMAIN session[w] =>
               /\ Agrees(whole, session[w][ORBIT_CONES])
               /\ Agrees(loaded, session[w][ORBIT_CONES])
               /\ truncated = {} => session[w][ORBIT_CONES] = listed
        /\ \A i \in DOMAIN whole \cap DOMAIN loaded : whole[i] = loaded[i]
        /\ truncated = {} =>
             /\ listed = loaded
             /\ load_file.git_cones = IF listed = <<>> THEN {} ELSE GitCone

\* The workflow ends: the paths join, unless a task throws.
WorkflowEnds == <>Ended

-----------------------------------------------------------------------------
(* The inductive invariant *)

\* Nothing of the input changes but what preprocess_input adds.
DataShape ==
  \E problem \in Problem, representatives \in BOOLEAN :
    in_data = [InputData(problem) EXCEPT
                 !.r = IF input_data THEN Len(problem.group[1]) ELSE 0,
                 !.simplex_orbit_representatives = representatives]

\* In which order files come to be.
PhaseShape ==
  /\ ~ input_data => control = "start"
  /\ input_data /\ in_data.moving_cone => moving_cone_file # Missing
  /\ ListsFinalPaths => symmetry_group_on_hashes # <<>>
  /\ traverse # "off" => control = "finished"

\* The symbols that workers may have loaded by now, and their values.
Loadable ==
  {name \in Globals :
     /\ input_data
     /\ name \in {ORBIT_CONES, SYMMETRY_GROUP_ON_HASHES} => traverse # "off"
     /\ IsThere(name, Current(name))}
Symbols == [name \in Loadable |-> Current(name)]

SessionShape ==
  /\ DOMAIN session = Worker
  /\ \A w \in Worker : Agrees(session[w], Symbols)

WorkflowInv == OrbitInv /\ DataShape /\ PhaseShape /\ SessionShape

\* What the orbit cones and their group are when they are available: files in
\* the directory of results, and permutations of exactly these.
ConesShape ==
  ListsFinalPaths =>
    /\ \A i \in DOMAIN list :
         list[i] = [directory |-> "orbit_cones", aface |-> <<>>,
                    name |-> list[i].name]
    /\ list # <<>> =>
         \A p \in DOMAIN symmetry_group_on_hashes :
           DOMAIN symmetry_group_on_hashes[p] = DOMAIN list

\* How far the fan and the results are on the two control paths.
FanShape ==
  /\ order # "off" => traverse # "off"
  /\ found \subseteq GitCone
  /\ found # {} => traverse # "off" /\ list # <<>>
  /\ traverse = "end" =>
       /\ reported = {Cardinality(found)}
       /\ list # <<>> => Fan!Frontier(found) \subseteq found
  /\ output # "off" => traverse = "end"
  /\ outcome = "returned" => output = "end" /\ order = "end"

\* What is in the results, and that only unnoticed errors make it less.
ResultShape ==
  /\ order = "end" =>
       /\ order_file \in Beginnings(outputOrbitConesOrder(list))
       /\ "order" \notin truncated => order_file = outputOrbitConesOrder(list)
  /\ output # "off" /\ "git_cones" \notin truncated => git_cones_file = found
  /\ load_file # Missing \/ output \in {"loading", "end"} =>
       /\ output # "off"
       /\ load_file \in LoadFiles(list, git_cones_file)
  /\ output = "end" /\ "load_file" \notin truncated => load_file.commands

ResultInv == ConesShape /\ FanShape /\ ResultShape
=============================================================================
