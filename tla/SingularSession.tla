-------------------------- MODULE SingularSession --------------------------
(***************************************************************************)
(* The Singular interpreter inside a worker process, as                    *)
(* singular_commands.cpp and singular_library_wrapper.cpp use it.  It is   *)
(* initialised once and lives as long as the worker: global symbols are    *)
(* loaded when a task first needs them and are never loaded again, other   *)
(* symbols are scratch and are killed before the task returns.             *)
(*                                                                         *)
(* A session maps the names of the symbols it has to their values.  The    *)
(* interpreter itself is external; an operator here is what a function     *)
(* leaves of the session s, given the input data and the contents of the   *)
(* files it reads.                                                         *)
(***************************************************************************)
EXTENDS Naturals

\* Symbols
IDEAL == "I"
TORUS_ACTION == "Q"
ORBIT_CONES == "OC"
MOVING_CONE == "MC"
SYMMETRY_GROUP == "SG"
SYMMETRY_GROUP_ON_CONES == "SG_CONES"
SYMMETRY_GROUP_ON_HASHES == "SG_HASHES"
Globals == {IDEAL, TORUS_ACTION, ORBIT_CONES, MOVING_CONE, SYMMETRY_GROUP,
            SYMMETRY_GROUP_ON_CONES, SYMMETRY_GROUP_ON_HASHES}

\* What the library gitfanparallel.lib computes.
movingCone(Q) == <<"movingCone", Q>>
coneViaPoints(Q) == <<"coneViaPoints", Q>>
\* The range 1..r of Singular counts down when r is 0.
trivialGroupAction(r) ==
  <<IF r = 0 THEN <<1, 0>> ELSE [i \in 1..r |-> i]>>
groupActionOnQImage(G, Q) == <<"groupActionOnQImage", G, Q>>

-----------------------------------------------------------------------------
(* singular_commands.cpp *)

\* init() in a process that has just started.
NoSymbols == <<>>

symbol_exists(s, name) == name \in DOMAIN s

\* def name = value; whatever name was before.
put(s, name, value) ==
  [n \in DOMAIN s \cup {name} |-> IF n = name THEN value ELSE s[n]]

kill(s, names) == [n \in DOMAIN s \ names |-> s[n]]

load_ssi(s, name, content) == put(s, name, content)

load_ssi_if_not_defined(s, name, content) ==
  IF symbol_exists(s, name) THEN s ELSE load_ssi(s, name, content)

\* The scratch symbols in names are defined, those in killed are gone when
\* the task returns.
Scratch(s, names, killed) ==
  kill([n \in DOMAIN s \cup names |-> IF n \in names THEN "scratch" ELSE s[n]],
       killed)

-----------------------------------------------------------------------------
(* Global symbols *)

loadTorusAction(s, data) == load_ssi_if_not_defined(s, TORUS_ACTION, data.Q)

\* file is the content of the file moving_cone.
loadMovingCone(s, data, file) ==
  IF symbol_exists(s, MOVING_CONE) THEN s
  ELSE IF data.moving_cone
       THEN load_ssi_if_not_defined(s, MOVING_CONE, file)
       ELSE put(loadTorusAction(s, data), MOVING_CONE, coneViaPoints(data.Q))

\* The group is the content of a file, or trivial on the data.r columns of Q.
loadSymmetryGroup(s, data) ==
  IF symbol_exists(s, SYMMETRY_GROUP) THEN s
  ELSE IF data.symmetry_group
       THEN load_ssi_if_not_defined(s, SYMMETRY_GROUP, data.group)
       ELSE put(s, SYMMETRY_GROUP, trivialGroupAction(data.r))

loadSymmetryGroupOnCones(s, data) ==
  IF symbol_exists(s, SYMMETRY_GROUP_ON_CONES) THEN s
  ELSE LET t == loadSymmetryGroup(loadTorusAction(s, data), data)
       IN  put(t, SYMMETRY_GROUP_ON_CONES,
               groupActionOnQImage(t[SYMMETRY_GROUP], t[TORUS_ACTION]))

-----------------------------------------------------------------------------
(* What tasks leave of the session *)

readAndSetDimensionParameters(s, data) ==
  loadSymmetryGroup(loadTorusAction(s, data), data)

\* Fault: the symbol is the cone over all points.
computeMovingConeOverAll(s, data) ==
  put(loadTorusAction(s, data), MOVING_CONE, coneViaPoints(data.Q))

\* computeMovingConeAndWriteSSIFile(), which writes the symbol to the file.
computeMovingCone(s, data) ==
  put(loadTorusAction(s, data), MOVING_CONE, movingCone(data.Q))

findOrbitRepresentatives(s, data) ==
  Scratch(loadSymmetryGroup(s, data), {"orbits"}, {"orbits"})

writeTrivialGroupActionToSSIFile(s) == Scratch(s, {"g"}, {"g"})

computeFullDimAFaces(s, data) ==
  Scratch(loadTorusAction(load_ssi_if_not_defined(s, IDEAL, data.ideal), data),
          {"L", "AF"}, {"L", "AF"})

computeOrbitConeAndWriteSSIFile(s, data) ==
  Scratch(loadTorusAction(s, data), {"aface", "c"}, {"aface", "c"})

intersectWithMovingConeAndOverwriteSSIFiles(s, data, file) ==
  Scratch(loadMovingCone(s, data, file),
          {"ocs", "result", "kept"}, {"ocs", "result", "kept"})

readGroupActionFromSymbol(s) == Scratch(s, {"img"}, {"img"})

readGroupAction(s) == Scratch(readGroupActionFromSymbol(s), {"g"}, {"g"})

writeGroupActionToSSIFile(s) == Scratch(s, {"g", "iv"}, {"g", "iv"})

computeOrbitConeOrbitWithDuplicatesAndWriteSSIFiles(s, data) ==
  Scratch(loadSymmetryGroupOnCones(s, data), {"rep", "orbit"}, {"rep", "orbit"})

\* expandOrbitConeOrbit() reads the group, computes the orbit and writes how
\* the group acts on it.
ExpandOrbit(s, data) ==
  writeGroupActionToSSIFile(
    computeOrbitConeOrbitWithDuplicatesAndWriteSSIFiles(
      readGroupActionFromSymbol(loadSymmetryGroup(s, data)), data))

computeInitialCone(s, data, file, orbitCones, symmetryGroup) ==
  LET t == load_ssi_if_not_defined(loadTorusAction(s, data),
                                   ORBIT_CONES, orbitCones)
      u == load_ssi_if_not_defined(t, SYMMETRY_GROUP_ON_HASHES, symmetryGroup)
  IN  Scratch(loadMovingCone(u, data, file), {"hash"}, {"hash"})

computeNeighbourHashes(s, data, file, orbitCones, symmetryGroup) ==
  LET t == load_ssi_if_not_defined(loadMovingCone(s, data, file),
                                   SYMMETRY_GROUP_ON_HASHES, symmetryGroup)
  IN  Scratch(load_ssi_if_not_defined(t, ORBIT_CONES, orbitCones),
              {"hash", "neighbours"}, {"hash", "neighbours"})
=============================================================================
