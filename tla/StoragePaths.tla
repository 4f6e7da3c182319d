---------------------------- MODULE StoragePaths ----------------------------
(***************************************************************************)
(* How the file system storages name cones.  The name of a cone, a         *)
(* sequence of hexadecimal digits, is cut into pieces, each of them a      *)
(* directory below the one before; a path is the sequence of these names.  *)
(* The root of a storage is left out: conversions add and remove it.       *)
(***************************************************************************)
EXTENDS Naturals, SequencesExt

\* substr() at every position that is a multiple of length.
Pieces(str, length) ==
  [i \in 1..((Len(str) + length - 1) \div length) |->
     SubSeq(str, (i - 1) * length + 1, Min({i * length, Len(str)}))]

-----------------------------------------------------------------------------
(* LinearConeStorage *)

pathForCone(cone, subdirectoryPathLength) == Pieces(cone, subdirectoryPathLength)

getCone(path) == FlattenSeq(path)

-----------------------------------------------------------------------------
(* StringContainer *)

suffix == "$"

\* Other strings make _asPath() throw.
Accepted(str) == Range(str) \cap {"/", "\\", suffix} = {}

\* Fault: every directory of the path gets the suffix.
asPathSuffixed(str, subdirectoryNameLength) ==
  LET path == IF str = <<>> THEN << <<>> >> ELSE Pieces(str, subdirectoryNameLength)
  IN  [i \in DOMAIN path |-> Append(path[i], suffix)]

\* The suffix tells the directory of a string from those above it.
asPath(str, subdirectoryNameLength) ==
  LET path == IF str = <<>> THEN << <<>> >> ELSE Pieces(str, subdirectoryNameLength)
  IN  [path EXCEPT ![Len(path)] = Append(@, suffix)]

asString(path) == Front(FlattenSeq(path))

\* Is it a directory the iterator stops at?
isAtValidPosition(path) == Last(path) # <<>> /\ Last(Last(path)) = suffix
=============================================================================
