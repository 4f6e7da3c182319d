----------------------------- MODULE OrbitCones -----------------------------
(***************************************************************************)
(* The Petri net of workflow/orbit_cones_from_afaces.xpnet: from one       *)
(* a-face of each orbit it computes the orbit cones, cuts them with the    *)
(* moving cone, expands the orbit of each under the symmetry group, drops  *)
(* orbits found twice, and numbers the cones of all orbits, together with  *)
(* the permutations of these numbers that the symmetry group induces.      *)
(*                                                                         *)
(* The first four steps are instances of ListManipulation, whose results   *)
(* come in the order in which workers finish; a step here is a whole       *)
(* instance, and its results may come in any order.  Geometry is a         *)
(* parameter: what a cone is, its preimage under a symmetry, its cut with  *)
(* the moving cone, and the order of the files that describe cones.        *)
(* Sequences, orbits and permutations are numbered from 1.                 *)
(***************************************************************************)
EXTENDS Naturals, FiniteSets, SequencesExt, Conversion, LRUCache

CONSTANTS
  AFace, Cone,
  Problem,                      \* the inputs: group, afaces and moving_cone
  NoCone,                       \* a cut that is not of full dimension
  computeOrbitConeForAFace(_),  \* the cone of an a-face
  preimageCone(_, _),           \* preimageCone(c, sigma)
  intersectWithMovingCone(_),   \* a cone, or NoCone
  Less(_, _)                    \* the order of the contents of files

IsPermutation(s) == s \in Seq(Nat) /\ Range(s) = DOMAIN s
IsGroupAction(action) ==
  action \in Seq(Seq(Nat)) /\ \A p \in DOMAIN action : IsPermutation(action[p])

\* An a-face of r columns is named by its elements, in hexadecimal.
AFaceName(f, r) == listToHexString(SetToSortSeq(f, <), r)

ASSUME ProblemAssumption ==
  \A problem \in Problem :
    /\ IsGroupAction(problem.group) /\ problem.group # <<>>
    /\ IsInjective(problem.group)
    /\ problem.afaces \in Seq(AFace) /\ IsInjective(problem.afaces)
    /\ problem.moving_cone \in BOOLEAN
    /\ \A f, g \in Range(problem.afaces) :
         LET r == Len(problem.group[1])
         IN  AFaceName(f, r) = AFaceName(g, r) => f = g

\* A cone is mapped to a cone.
ASSUME ConeAssumption ==
  /\ \A f \in AFace : computeOrbitConeForAFace(f) \in Cone
  /\ \A problem \in Problem : \A sigma \in Range(problem.group), c \in Cone :
       preimageCone(c, sigma) \in Cone
  /\ \A c \in Cone : intersectWithMovingCone(c) \in Cone \cup {NoCone}

\* The contents of files are ordered.
ASSUME OrderAssumption ==
  /\ \A c, d \in Cone : c # d => Less(c, d) \/ Less(d, c)
  /\ \A c, d, e \in Cone : Less(c, d) /\ Less(d, e) => Less(c, e)
  /\ \A c \in Cone : ~ Less(c, c)

\* The symmetries are a group of permutations that acts on the cones: taking
\* the preimage under s and then under t is taking it under "t, then s".
Compose(s, t) == [i \in DOMAIN t |-> s[t[i]]]
ASSUME GroupAssumption ==
  \A problem \in Problem :
    LET symmetries == Range(problem.group)
        identity == [i \in DOMAIN problem.group[1] |-> i]
    IN  /\ \A s \in symmetries : DOMAIN s = DOMAIN identity
        /\ identity \in symmetries
        /\ \A s, t \in symmetries : Compose(s, t) \in symmetries
        /\ \A s \in symmetries : \E t \in symmetries : Compose(s, t) = identity
        /\ \A c \in Cone :
             /\ preimageCone(c, identity) = c
             /\ \A s, t \in symmetries :
                  preimageCone(preimageCone(c, s), t) =
                    preimageCone(c, Compose(s, t))

VARIABLES
  in_data,
  control,                     \* the place that holds the control token
  enable_clean,                \* does the second control path wait for clean?
  inout_processed_list,
  cone_files,                  \* what the files of cones contain, by path
  action_files,                \* the files group_action_on_orbit_<n>, by n
  symmetry_group_on_hashes

vars == <<in_data, control, enable_clean, inout_processed_list, cone_files,
          action_files, symmetry_group_on_hashes>>

list == inout_processed_list
group == in_data.group

\* Paths: tmp/<aface>, tmp/oc_<n>_<i>, and the latter under result/orbit_cones.
AFacePath(f) ==
  [directory |-> "tmp", name |-> <<>>, aface |-> AFaceName(f, Len(group[1]))]
OrbitPath(n, i) == [directory |-> "tmp", aface |-> <<>>, name |-> <<n, i>>]

Content(path) == cone_files[path]

\* The files f overwritten by the files g.
Overwrite(f, g) ==
  [p \in DOMAIN f \cup DOMAIN g |-> IF p \in DOMAIN g THEN g[p] ELSE f[p]]

Init ==
  /\ in_data \in Problem
  /\ control = "enabled"
  /\ enable_clean = FALSE
  /\ inout_processed_list = in_data.afaces
  /\ cone_files = <<>>
  /\ action_files = <<>>
  /\ symmetry_group_on_hashes = <<>>

Move(from, to) == control = from /\ control' = to

\* Transition init.
Start ==
  /\ Move("enabled", "aface_reps_available")
  /\ UNCHANGED <<in_data, enable_clean, inout_processed_list, cone_files,
                 action_files, symmetry_group_on_hashes>>

-----------------------------------------------------------------------------
(* The steps that manipulate the list *)

\* The list becomes the results of the tasks of a step, in any order.
ListStep(from, to, results) ==
  /\ Move(from, to)
  /\ \E order \in [1..Cardinality(DOMAIN results) -> DOMAIN results] :
       /\ IsInjective(order)
       /\ inout_processed_list' = [i \in DOMAIN order |-> results[order[i]]]
  /\ UNCHANGED <<in_data, enable_clean, symmetry_group_on_hashes>>

\* The file computeOrbitCone() writes for an a-face.
computeOrbitCone(f) == [path |-> AFacePath(f),
                        content |-> computeOrbitConeForAFace(f)]

compute_orbit_cones_process ==
  [i \in DOMAIN list |-> computeOrbitCone(list[i]).path]

compute_orbit_cones ==
  /\ ListStep("aface_reps_available", "orbit_cone_reps_available",
              compute_orbit_cones_process)
  /\ cone_files' =
       Overwrite(cone_files,
                 [p \in Range(compute_orbit_cones_process) |->
                    computeOrbitCone(CHOOSE f \in Range(list) :
                                       AFacePath(f) = p).content])
  /\ UNCHANGED action_files

\* The cones that intersectWithMovingConeAndOverwriteSSIFiles() keeps: those
\* whose cut is of full dimension.
KeptOrbitCones ==
  Restrict(list, {i \in DOMAIN list :
                    intersectWithMovingCone(Content(list[i])) # NoCone})

\* Without a moving cone the step is skipped.
intersect_with_moving_cone_process ==
  IF in_data.moving_cone THEN KeptOrbitCones ELSE list

\* The files of the cones that are kept are overwritten by the cuts.
intersect_with_moving_cone ==
  /\ ListStep("orbit_cone_reps_available",
              "intersected_orbit_cone_reps_available",
              intersect_with_moving_cone_process)
  /\ cone_files' =
       IF in_data.moving_cone
       THEN Overwrite(cone_files, [p \in Range(KeptOrbitCones) |->
                                     intersectWithMovingCone(Content(p))])
       ELSE cone_files
  /\ UNCHANGED action_files

-----------------------------------------------------------------------------
(* expandOrbitConeOrbit() *)

\* Fault: the factors are swapped.
TimesSwapped(l, r) == [i \in DOMAIN l |-> r[l[i]]]

\* The product of permutations, operator*.
Times(l, r) == [i \in DOMAIN l |-> l[r[i]]]

\* The orbit of a cone, with the cones a stabiliser makes equal.
computeOrbitConeOrbitWithDuplicates(rep) ==
  [i \in DOMAIN group |-> preimageCone(rep, group[i])]

\* The numbers in S in ascending order.
Ascending(S) ==
  [k \in 1..Cardinality(S) |->
     CHOOSE i \in S : Cardinality({j \in S : j <= i}) = k]

\* The indices of the first of all equal cones in an orbit with duplicates.
Firsts(orbit) ==
  Ascending({i \in DOMAIN orbit : \A j \in 1..(i - 1) : orbit[j] # orbit[i]})

\* Where the least cone is in the orbit without duplicates.
minimalElementIndex(orbit) ==
  CHOOSE m \in DOMAIN Firsts(orbit) :
    \A j \in DOMAIN Firsts(orbit) \ {m} :
      Less(orbit[Firsts(orbit)[m]], orbit[Firsts(orbit)[j]])

\* Fault: the orbit stays in the order in which it was computed.
ElementsUnsorted(orbit) == Firsts(orbit)

\* The orbit without duplicates, the least cone swapped to the front.
Elements(orbit) ==
  LET first == Firsts(orbit)
      min == minimalElementIndex(orbit)
  IN  [first EXCEPT ![1] = first[min], ![min] = first[1]]

\* orbitWithDuplicatesIndexToElementIndex: where a cone of the orbit with
\* duplicates is in the orbit without them, the swap included.
ElementIndex(orbit, i) ==
  LET first == Firsts(orbit)
      min == minimalElementIndex(orbit)
      e == CHOOSE e \in DOMAIN first : orbit[first[e]] = orbit[i]
  IN  IF e = 1 THEN min ELSE IF e = min THEN 1 ELSE e

\* groupActionOnOrbit: how each symmetry permutes the elements.  The product
\* is looked up in the group.
GroupActionOnOrbit(orbit) ==
  [p \in DOMAIN group |->
     [e \in DOMAIN Elements(orbit) |->
        ElementIndex(orbit,
          CHOOSE i \in DOMAIN group :
            group[i] = Times(group[Elements(orbit)[e]], group[p]))]]

\* What expandOrbitConeOrbit() returns for the n-th cone of the list: the
\* files of the orbit and the number of the file with the group action.
expandOrbitConeOrbit(n, orbit) ==
  [elements |-> [e \in DOMAIN Elements(orbit) |->
                   OrbitPath(n, Elements(orbit)[e])],
   group_action |-> n]

OrbitOf(n) == computeOrbitConeOrbitWithDuplicates(Content(list[n]))

\* The files of an orbit, numbered, in the order in which they are read: each
\* is hashed and compared with an equal one that is in the table; a new one is
\* put there and compared with the least one so far.  In the end the table is
\* asked for the least and the first one, to swap them.
FilesRead(orbit) ==
  LET new(i) == \A j \in 1..(i - 1) : orbit[j] # orbit[i]
      least(i) == CHOOSE m \in 1..i : /\ new(m)
                                      /\ \A j \in 1..i : orbit[j] = orbit[m]
                                           \/ Less(orbit[m], orbit[j])
      equal(i) == CHOOSE j \in 1..i : new(j) /\ orbit[j] = orbit[i]
      minimalElement == least(Len(orbit))
      read(i) == IF i = 1 THEN <<1, 1, 1>>
                 ELSE <<i, i, IF new(i) THEN least(i - 1) ELSE equal(i)>>
      lookUp(i) == <<i, i, i>>
  IN  FlattenSeq([i \in DOMAIN orbit |-> read(i)]) \o lookUp(minimalElement)
        \o lookUp(1) \o lookUp(minimalElement)

expand_orbit_cone_orbits_process ==
  [n \in DOMAIN list |-> expandOrbitConeOrbit(n, OrbitOf(n))]

\* An orbit for each cone of the list; all its files are written, those of
\* duplicates too, and are named after the position of the cone.
expand_orbit_cone_orbits ==
  LET orbit == [n \in DOMAIN list |-> OrbitOf(n)]
      written == {OrbitPath(n, i) : n \in DOMAIN list, i \in DOMAIN group}
  IN  /\ ListStep("intersected_orbit_cone_reps_available",
                  "orbit_cone_orbits_available",
                  expand_orbit_cone_orbits_process)
      /\ cone_files' =
           Overwrite(cone_files,
                     [p \in written |-> orbit[p.name[1]][p.name[2]]])
      /\ action_files' = [n \in DOMAIN list |-> GroupActionOnOrbit(orbit[n])]

\* Is there no equal orbit behind n?  Equal orbits have the same first cone.
isLastOfAllEqualOrbitConeOrbits(n) ==
  \A m \in (n + 1)..Len(list) :
    Content(list[n].elements[1]) # Content(list[m].elements[1])

\* The orbits whose first files are read for this.
OrbitsRead(n) ==
  LET equal == {m \in (n + 1)..Len(list) :
                  Content(list[n].elements[1]) = Content(list[m].elements[1])}
      stop == IF equal = {} THEN Len(list) ELSE Min(equal)
  IN  FlattenSeq([k \in 1..(stop - n) |-> <<n, n + k>>])

keep_unique_orbit_cones_process ==
  Restrict(list, {n \in DOMAIN list : isLastOfAllEqualOrbitConeOrbits(n)})

keep_unique_orbit_cones ==
  /\ ListStep("orbit_cone_orbits_available",
              "unique_orbit_cone_orbits_available",
              keep_unique_orbit_cones_process)
  /\ UNCHANGED <<cone_files, action_files>>

-----------------------------------------------------------------------------
(* The steps after the last list manipulation *)

\* Fault: the cones are not copied.
FinalPathTmp(p) == p

FinalPath(p) == [p EXCEPT !.directory = "orbit_cones"]

\* How many cones the orbits before n have.
Shift(n) == Len(FlattenSeq([m \in 1..(n - 1) |-> list[m].elements]))

\* The cones of all orbits, numbered through.
Flattened == FlattenSeq([n \in DOMAIN list |-> list[n].elements])

\* How each symmetry permutes these numbers.
GroupActionOnFlattened ==
  LET shifted(p, n) ==
        [e \in DOMAIN list[n].elements |->
           action_files[list[n].group_action][p][e] + Shift(n)]
  IN  [p \in DOMAIN group |->
         FlattenSeq([n \in DOMAIN list |-> shifted(p, n)])]

\* Transition removeOrbitStructureAndCreateSymmetryGroupOnHashes: the cones
\* are copied out of the intermediate directory.
removeOrbitStructure ==
  /\ Move("unique_orbit_cone_orbits_available", "orbit_cones_available")
  /\ inout_processed_list' =
       [i \in DOMAIN Flattened |-> FinalPath(Flattened[i])]
  /\ cone_files' =
       Overwrite(cone_files,
                 [q \in {FinalPath(p) : p \in Range(Flattened)} |->
                    Content(CHOOSE p \in Range(Flattened) : FinalPath(p) = q)])
  /\ symmetry_group_on_hashes' = GroupActionOnFlattened
  /\ UNCHANGED <<in_data, enable_clean, action_files>>

split_control_path ==
  /\ Move("orbit_cones_available", "finished")
  /\ enable_clean' = TRUE
  /\ UNCHANGED <<in_data, inout_processed_list, cone_files, action_files,
                 symmetry_group_on_hashes>>

\* removeIntermediateOrbitInfo(), which runs beside whatever follows the net.
clean ==
  /\ enable_clean
  /\ enable_clean' = FALSE
  /\ cone_files' = [p \in {q \in DOMAIN cone_files : q.directory # "tmp"} |->
                      cone_files[p]]
  /\ action_files' = <<>>
  /\ UNCHANGED <<in_data, control, inout_processed_list,
                 symmetry_group_on_hashes>>

\* The net has finished; nothing is left to fire.
Finished == control = "finished" /\ ~ enable_clean /\ UNCHANGED vars

Next ==
  \/ Start
  \/ compute_orbit_cones
  \/ intersect_with_moving_cone
  \/ expand_orbit_cone_orbits
  \/ keep_unique_orbit_cones
  \/ removeOrbitStructure
  \/ split_control_path
  \/ clean
  \/ Finished

Spec == Init /\ [][Next]_vars

-----------------------------------------------------------------------------
(* Properties *)

\* At any time of a sequence of reads the cache has what was read last, and its
\* map points to where the list has it.
CacheHasLast(size, keys, content(_)) ==
  \A i \in DOMAIN keys :
    LET recent == LastUsed(SubSeq(keys, 1, i))
        kept == SubSeq(recent, 1, Min({size, Len(recent)}))
        cache == After(size, SubSeq(keys, 1, i), content)
    IN  /\ [n \in DOMAIN cache.lru |-> cache.lru[n].key] = kept
        /\ DOMAIN cache.values = Range(kept)
        /\ \A n \in DOMAIN kept :
             cache.values[kept[n]] =
               [at |-> cache.lru[n].id, value |-> content(kept[n])]

\* While an orbit is expanded, its cache has the contents of exactly the five
\* files that were used last; the same holds of the two files in the cache with
\* which equal orbits are looked for.
CacheRecent ==
  /\ control = "intersected_orbit_cone_reps_available" =>
       \A n \in DOMAIN list :
         CacheHasLast(5, FilesRead(OrbitOf(n)), LAMBDA f : OrbitOf(n)[f])
  /\ control = "orbit_cone_orbits_available" =>
       \A n \in DOMAIN list :
         CacheHasLast(2, OrbitsRead(n), LAMBDA m : Content(list[m].elements[1]))

\* The files a list refers to.
FilesOf(l) ==
  CASE control \in {"enabled", "aface_reps_available"} -> <<>>
    [] control \in {"orbit_cone_orbits_available",
                    "unique_orbit_cone_orbits_available"} ->
         FlattenSeq([n \in DOMAIN l |-> l[n].elements])
    [] OTHER -> l

\* No two cones of the list share a file, so that workers that overwrite files
\* do not meet, and the files are there as long as the list names them, during
\* and after the removal of intermediate files too.
FilesThere ==
  /\ IsInjective(FilesOf(list))
  /\ Range(FilesOf(list)) \subseteq DOMAIN cone_files

\* The orbit cones of the a-faces, cut with the moving cone if there is one.
RepresentativeCones ==
  LET cones == {computeOrbitConeForAFace(f) : f \in Range(in_data.afaces)}
  IN  IF in_data.moving_cone
      THEN {intersectWithMovingCone(c) : c \in cones} \ {NoCone}
      ELSE cones

\* In the end the list has every cone of the orbits of these cones, each once,
\* although several a-faces may lead to the same orbit.
OrbitsOnce ==
  control = "finished" =>
    /\ {Content(p) : p \in Range(list)} =
         {preimageCone(c, sigma) : c \in RepresentativeCones,
                                   sigma \in Range(group)}
    /\ Len(list) = Cardinality({Content(p) : p \in Range(list)})

\* In the end each symmetry permutes the numbers of the cones the way it
\* permutes the cones, which is what groupActionOnHashes() of the library
\* gitfanparallel.lib computes by comparing all cones.
ActionOnCones ==
  control = "finished" =>
    \A p \in DOMAIN group : \A i \in DOMAIN list :
      /\ symmetry_group_on_hashes[p][i] \in DOMAIN list
      /\ Content(list[symmetry_group_on_hashes[p][i]]) =
           preimageCone(Content(list[i]), group[p])

-----------------------------------------------------------------------------
(* The inductive invariant *)

ProblemShape ==
  \E problem \in Problem :
    /\ group = problem.group
    /\ in_data.afaces = problem.afaces
    /\ in_data.moving_cone = problem.moving_cone

ListsAFaces == control \in {"enabled", "aface_reps_available"}
ListsOrbits == control \in {"orbit_cone_orbits_available",
                            "unique_orbit_cone_orbits_available"}
ListsFinalPaths == control \in {"orbit_cones_available", "finished"}

\* The list names a-faces first and files later, and in between orbits of
\* files, which are numbered as the cones were before them.
ListShape ==
  /\ ListsAFaces => list \in Seq(Range(in_data.afaces)) /\ IsInjective(list)
  /\ ListsOrbits =>
       /\ list \in Seq([elements : Seq(DOMAIN cone_files), group_action : Nat])
       /\ \A n \in DOMAIN list :
            /\ IsInjective(list[n].elements)
            /\ \A p \in Range(list[n].elements) :
                 \E i \in DOMAIN group : p = OrbitPath(list[n].group_action, i)
       /\ \A m, n \in DOMAIN list :
            m # n => list[m].group_action # list[n].group_action
  /\ ~ ListsAFaces /\ ~ ListsOrbits =>
       list \in Seq(DOMAIN cone_files) /\ IsInjective(list)

\* Files have cones.  What is left when the intermediate files are removed is
\* what the list names.
FileShape ==
  /\ \A p \in DOMAIN cone_files : Content(p) \in Cone
  /\ ListsFinalPaths => \A p \in Range(list) : p.directory = "orbit_cones"
  /\ enable_clean => control = "finished"

OrbitInv == ProblemShape /\ ListShape /\ FileShape

\* The cones in the files of a list.
ConesOf(l) == {Content(p) : p \in Range(l)}
Orbit(c) == {preimageCone(c, sigma) : sigma \in Range(group)}
AFaceCones == {computeOrbitConeForAFace(f) : f \in Range(in_data.afaces)}

HasConesOnce(l) ==
  \A i, j \in DOMAIN l : Content(l[i]) = Content(l[j]) => i = j

\* The action permutes positions of a list as the symmetries permute cones.
PermutesCones(action, l) ==
  \A p \in DOMAIN group : \A i \in DOMAIN l :
    /\ action[p][i] \in DOMAIN l
    /\ Content(l[action[p][i]]) = preimageCone(Content(l[i]), group[p])

\* An orbit in the list has the cones of the orbit of c, the least one first.
IsOrbitOf(orbit, c) ==
  /\ ConesOf(orbit.elements) = Orbit(c)
  /\ HasConesOnce(orbit.elements)
  /\ \A i \in DOMAIN orbit.elements \ {1} :
       Less(Content(orbit.elements[1]), Content(orbit.elements[i]))
  /\ PermutesCones(action_files[orbit.group_action], orbit.elements)

\* Which cones the list stands for.
ConesInv ==
  /\ ListsAFaces => Range(list) = Range(in_data.afaces)
  /\ control = "orbit_cone_reps_available" => ConesOf(list) = AFaceCones
  /\ control = "intersected_orbit_cone_reps_available" =>
       ConesOf(list) = RepresentativeCones
  /\ ListsOrbits =>
       /\ \A n \in DOMAIN list :
            \E c \in RepresentativeCones : IsOrbitOf(list[n], c)
       /\ \A c \in RepresentativeCones :
            \E n \in DOMAIN list : IsOrbitOf(list[n], c)
  /\ control = "unique_orbit_cone_orbits_available" =>
       \A m, n \in DOMAIN list :
         Content(list[m].elements[1]) = Content(list[n].elements[1]) => m = n
  /\ ListsFinalPaths =>
       /\ ConesOf(list) = UNION {Orbit(c) : c \in RepresentativeCones}
       /\ HasConesOnce(list)
       /\ PermutesCones(symmetry_group_on_hashes, list)
=============================================================================
