----------------------------- MODULE ConeStorage -----------------------------
(***************************************************************************)
(* What storage/conestorage.hpp promises, in the form every implementation *)
(* of IConeStorage is to keep and TraverseGitfan relies on: of all calls   *)
(* that add a cone exactly one returns true, not before the cone is        *)
(* marked, and each marked cone is retrieved once.  Calls that return      *)
(* false change nothing and are not visible here.                          *)
(***************************************************************************)
EXTENDS Naturals, FiniteSets

CONSTANT Cone

VARIABLES
  stored,     \* the cones that some addMarkedCone() has found to be new
  marked,     \* those that unmarkCones() can find
  unmarked,   \* those that unmarkCones() has retrieved
  successes,  \* how many addMarkedCone() calls of a cone returned true
  scanning,   \* is unmarkCones() running?
  limit,      \* its argument
  seen        \* the cones that were marked when it began

storageVars == <<stored, marked, unmarked, successes, scanning, limit, seen>>

Init ==
  /\ stored = {}
  /\ marked = {}
  /\ unmarked = {}
  /\ successes = [c \in Cone |-> 0]
  /\ scanning = FALSE
  /\ limit = 0
  /\ seen = {}

\* A call of addMarkedCone(c) finds that c is new; the cone may be marked in
\* the same step or later.
Store(c) ==
  /\ c \notin stored
  /\ stored' = stored \cup {c}
  /\ marked' \in {marked, marked \cup {c}}
  /\ UNCHANGED <<unmarked, successes, scanning, limit, seen>>

Mark(c) ==
  /\ c \in stored \ (marked \cup unmarked)
  /\ marked' = marked \cup {c}
  /\ UNCHANGED <<stored, unmarked, successes, scanning, limit, seen>>

\* The call that stored c returns true.
Succeed(c) ==
  /\ c \in marked \cup unmarked
  /\ successes[c] = 0
  /\ successes' = [successes EXCEPT ![c] = 1]
  /\ UNCHANGED <<stored, marked, unmarked, scanning, limit, seen>>

\* unmarkCones(n) is called; one call at a time.  To ask for more cones than
\* there are is to ask for all of them.
BeginUnmark(n) ==
  /\ ~ scanning
  /\ scanning' = TRUE
  /\ limit' = n
  /\ seen' = marked
  /\ UNCHANGED <<stored, marked, unmarked, successes>>

\* It retrieves at most n marked cones, and all it has seen if it retrieves
\* fewer.
EndUnmark(S) ==
  /\ scanning
  /\ Cardinality(S) <= limit
  /\ Cardinality(S) < limit => seen \subseteq S
  /\ marked' = marked \ S
  /\ unmarked' = unmarked \cup S
  /\ scanning' = FALSE
  /\ limit' = 0
  /\ seen' = {}
  /\ UNCHANGED <<stored, successes>>

Next ==
  \/ \E c \in Cone : Store(c) \/ Mark(c) \/ Succeed(c)
  \/ \E n \in 0..Cardinality(Cone) : BeginUnmark(n)
  \/ \E S \in SUBSET marked : EndUnmark(S)

Spec == Init /\ [][Next]_storageVars

\* A cone that was stored becomes retrievable, and a call that has marked its
\* cone returns.
Fairness ==
  \A c \in Cone : WF_storageVars(Mark(c)) /\ WF_storageVars(Succeed(c))

FairSpec == Spec /\ Fairness
=============================================================================
