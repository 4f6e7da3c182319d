------------------------------- MODULE GitFan -------------------------------
(***************************************************************************)
(* What the traversal promises (README.md and the option max-cones of      *)
(* bin/gitfan.cpp): starting from the initial cone it finds the cones of   *)
(* the fan one after the other, each as the neighbour of one found before, *)
(* and it reports their number once, when there is none left to find.      *)
(***************************************************************************)
EXTENDS Integers, FiniteSets

CONSTANTS Cone, InitialCones, Neighbours

VARIABLES
  found,     \* the cones known so far
  reported   \* {} before the end, {n} when n cones have been reported

fanVars == <<found, reported>>

\* The cones that are known to exist once those of S are.
Frontier(S) == InitialCones \cup UNION {Neighbours[c] : c \in S}

Init == found = {} /\ reported = {}

Find(c) ==
  /\ reported = {}
  /\ c \in Frontier(found) \ found
  /\ found' = found \cup {c}
  /\ UNCHANGED reported

Report ==
  /\ reported = {}
  /\ Frontier(found) \subseteq found
  /\ reported' = {Cardinality(found)}
  /\ UNCHANGED found

Next == Report \/ \E c \in Cone : Find(c)

Spec == Init /\ [][Next]_fanVars

FairSpec == Spec /\ WF_fanVars(Next)
=============================================================================
